---- MODULE Spec2Model ----
(***************************************************************************)
(* A model of the Civitai catalog client (civitai-client.ts), its schema   *)
(* layer (types.ts), the calls it makes to the upstream REST API and the   *)
(* tool-call handler of the MCP server (index.ts).                         *)
(*                                                                         *)
(* JavaScript values are tagged records, strings are TLA+ strings and are  *)
(* processed character by character, so that stringification, URL          *)
(* serialisation and message formatting are computed, not assumed.         *)
(***************************************************************************)
EXTENDS Integers, Sequences, FiniteSets, TLC

VARIABLES
    baseUrl,    \* CivitaiClient.baseUrl
    apiKey,     \* CivitaiClient.apiKey, fixed by the constructor
    pc,         \* per call: "idle", "fetching", "reading" or "done"
    op,         \* per call: the client method that was invoked
    args,       \* per call: the arguments the caller passed
    schema,     \* per call: the name of the schema handed to makeRequest
    params,     \* per call: the parameter bag handed to buildUrl
    built,      \* per call: the outcome of buildUrl
    request,    \* per call: the GET handed to fetch, if any
    nreq,       \* per call: number of GETs issued so far
    response,   \* per call: status line and body bookkeeping of the response
    outcome,    \* per call: what the caller receives (value or failure)
    tool,       \* per call: the tool call being served (name, arguments)
    reply       \* per call: what the tool-call handler returns

vars ==
    <<baseUrl, apiKey, pc, op, args, schema, params, built, request, nreq,
      response, outcome, tool, reply>>

(***************************************************************************)
(* Bounds of the model.                                                    *)
(***************************************************************************)
MaxArrLen == 2      \* longest array-valued parameter
MaxItems == 2       \* longest `items` list of a response body

(***************************************************************************)
(* JavaScript values.                                                      *)
(***************************************************************************)
Undefined == [k |-> "undefined"]
Null == [k |-> "null"]
Str(s) == [k |-> "string", s |-> s]
Num(n) == [k |-> "number", n |-> n]
Bool(b) == [k |-> "boolean", b |-> b]
Arr(a) == [k |-> "array", a |-> a]
Obj(o) == [k |-> "object", o |-> o]
\* An object given by its own [key, value] entries in insertion order.
Bag(e) == [k |-> "object", e |-> e]

\* `if (this.apiKey)` / `this.apiKey && {...}`: JavaScript truthiness.
Truthy(v) ==
    CASE v.k = "undefined" -> FALSE
      [] v.k = "null" -> FALSE
      [] v.k = "string" -> v.s # ""
      [] v.k = "number" -> v.n # 0
      [] v.k = "boolean" -> v.b
      [] OTHER -> TRUE

\* `value.toString()` is a property access: it throws a TypeError on
\* undefined and null.
CanToString(v) == v.k \notin {"undefined", "null"}

RECURSIVE JoinStrings(_, _)
JoinStrings(ss, sep) ==
    IF ss = <<>> THEN ""
    ELSE IF Len(ss) = 1 THEN ss[1]
    ELSE ss[1] \o sep \o JoinStrings(Tail(ss), sep)

\* Number.prototype.toString, Boolean.prototype.toString, String.prototype
\* .toString and Array.prototype.toString (join with ",", null and undefined
\* elements as the empty string), for the integers the model uses.
RECURSIVE ToStr(_)
ToStr(v) ==
    CASE v.k = "string" -> v.s
      [] v.k = "number" -> ToString(v.n)
      [] v.k = "boolean" -> IF v.b THEN "true" ELSE "false"
      [] v.k = "array" ->
            JoinStrings([i \in 1..Len(v.a) |->
                            IF CanToString(v.a[i]) THEN ToStr(v.a[i]) ELSE ""], ",")
      [] OTHER -> "[object Object]"

\* The message of the TypeError of `v.toString()` on null or undefined.
ToStringTypeError(v) ==
    [name |-> "TypeError",
     message |-> "Cannot read properties of " \o v.k \o " (reading 'toString')"]

(***************************************************************************)
(* Strings, character by character.                                        *)
(***************************************************************************)
CharAt(s, i) == SubSeq(s, i, i)
From(s, i) == SubSeq(s, i, Len(s))
Upto(s, i) == SubSeq(s, 1, i)

RECURSIVE IndexFrom(_, _, _)
\* The first index >= i of character c in s, or 0.
IndexFrom(s, c, i) ==
    IF i > Len(s) THEN 0
    ELSE IF CharAt(s, i) = c THEN i
    ELSE IndexFrom(s, c, i + 1)

IndexOf(s, c) == IndexFrom(s, c, 1)

StartsWith(s, p) == Len(s) >= Len(p) /\ Upto(s, Len(p)) = p

RECURSIVE SplitOn(_, _)
\* s split on every occurrence of character c ("" gives one empty piece).
SplitOn(s, c) ==
    LET i == IndexOf(s, c)
    IN  IF i = 0 THEN <<s>>
        ELSE <<Upto(s, i - 1)>> \o SplitOn(From(s, i + 1), c)

(***************************************************************************)
(* application/x-www-form-urlencoded, as URLSearchParams serialises and    *)
(* parses it.                                                              *)
(***************************************************************************)
FormSafe ==
    {"a","b","c","d","e","f","g","h","i","j","k","l","m","n","o","p","q","r",
     "s","t","u","v","w","x","y","z",
     "A","B","C","D","E","F","G","H","I","J","K","L","M","N","O","P","Q","R",
     "S","T","U","V","W","X","Y","Z",
     "0","1","2","3","4","5","6","7","8","9","*","-",".","_"}

\* The percent-encoded bytes of the other characters the model's strings use.
PercentCodes ==
    {<<" ", "%20">>, <<"&", "%26">>, <<"=", "%3D">>, <<"+", "%2B">>,
     <<"%", "%25">>, <<"#", "%23">>, <<"?", "%3F">>, <<"/", "%2F">>,
     <<":", "%3A">>, <<",", "%2C">>, <<"'", "%27">>, <<"(", "%28">>,
     <<")", "%29">>, <<"[", "%5B">>, <<"]", "%5D">>}

PercentOf(c) == (CHOOSE p \in PercentCodes : p[1] = c)[2]

FormEncodeChar(c) ==
    IF c \in FormSafe THEN c
    ELSE IF c = " " THEN "+"
    ELSE PercentOf(c)

RECURSIVE FormEncode(_)
FormEncode(s) ==
    IF s = "" THEN "" ELSE FormEncodeChar(CharAt(s, 1)) \o FormEncode(From(s, 2))

RECURSIVE FormDecode(_)
FormDecode(s) ==
    IF s = "" THEN ""
    ELSE IF CharAt(s, 1) = "+" THEN " " \o FormDecode(From(s, 2))
    ELSE IF CharAt(s, 1) = "%" /\ Len(s) >= 3
              /\ \E p \in PercentCodes : p[2] = Upto(s, 3)
         THEN (CHOOSE p \in PercentCodes : p[2] = Upto(s, 3))[1]
                  \o FormDecode(From(s, 4))
    ELSE CharAt(s, 1) \o FormDecode(From(s, 2))

\* The serialisation of a URLSearchParams list: name=value joined by "&".
SerializeParams(sp) ==
    JoinStrings([i \in 1..Len(sp) |->
                    FormEncode(sp[i][1]) \o "=" \o FormEncode(sp[i][2])], "&")

RECURSIVE ParsePieces(_)
ParsePieces(pieces) ==
    IF pieces = <<>> THEN <<>>
    ELSE LET p == Head(pieces)
             i == IndexOf(p, "=")
         IN  IF p = "" THEN ParsePieces(Tail(pieces))
             ELSE IF i = 0 THEN <<<<FormDecode(p), "">>>> \o ParsePieces(Tail(pieces))
             ELSE <<<<FormDecode(Upto(p, i - 1)), FormDecode(From(p, i + 1))>>>>
                      \o ParsePieces(Tail(pieces))

\* The name/value pairs a query string carries (a query string read back by
\* URLSearchParams, or by the upstream server).
ParseQuery(q) == ParsePieces(SplitOn(q, "&"))

\* The query string of an absolute URL: after the first "?", before any "#".
QueryOf(href) ==
    LET h == IndexOf(href, "#")
        nofrag == IF h = 0 THEN href ELSE Upto(href, h - 1)
        q == IndexOf(nofrag, "?")
    IN  IF q = 0 THEN "" ELSE From(nofrag, q + 1)

\* The URL without its query string and fragment.
PathOf(href) ==
    LET h == IndexOf(href, "#")
        nofrag == IF h = 0 THEN href ELSE Upto(href, h - 1)
        q == IndexOf(nofrag, "?")
    IN  IF q = 0 THEN nofrag ELSE Upto(nofrag, q - 1)

\* The values of the query parameter `name`, in order of occurrence.
RECURSIVE ValuesOf(_, _)
ValuesOf(sp, name) ==
    IF sp = <<>> THEN <<>>
    ELSE IF Head(sp)[1] = name THEN <<Head(sp)[2]>> \o ValuesOf(Tail(sp), name)
    ELSE ValuesOf(Tail(sp), name)

(***************************************************************************)
(* The URL object of buildUrl: `new URL(...)`, `url.searchParams`,         *)
(* `url.toString()`.                                                       *)
(***************************************************************************)
\* new URL(s): the string up to the query, the query (with its "?"), the
\* list of name/value pairs parsed from it, and the fragment (with its "#").
NewURL(s) ==
    LET h == IndexOf(s, "#")
    IN  [path |-> PathOf(s),
         query |-> IF QueryOf(s) = "" THEN "" ELSE "?" \o QueryOf(s),
         sp |-> ParseQuery(QueryOf(s)),
         fragment |-> IF h = 0 THEN "" ELSE From(s, h)]

\* The update steps of a URLSearchParams object: the URL's query becomes the
\* serialisation of the list (no query at all when the list is empty).
UpdateQuery(url, sp) ==
    [url EXCEPT !.sp = sp,
                !.query = IF sp = <<>> THEN "" ELSE "?" \o SerializeParams(sp)]

RECURSIVE RemoveName(_, _)
RemoveName(sp, name) ==
    IF sp = <<>> THEN <<>>
    ELSE IF Head(sp)[1] = name THEN RemoveName(Tail(sp), name)
    ELSE <<Head(sp)>> \o RemoveName(Tail(sp), name)

RECURSIVE SetFirst(_, _, _)
SetFirst(sp, name, value) ==
    IF Head(sp)[1] = name
    THEN <<<<name, value>>>> \o RemoveName(Tail(sp), name)
    ELSE <<Head(sp)>> \o SetFirst(Tail(sp), name, value)

\* url.searchParams.set(name, value): the first pair of that name takes the
\* value and the other pairs of that name are removed; with no such pair the
\* pair is appended.
SearchParamsSet(url, name, value) ==
    IF \E i \in 1..Len(url.sp) : url.sp[i][1] = name
    THEN UpdateQuery(url, SetFirst(url.sp, name, value))
    ELSE UpdateQuery(url, Append(url.sp, <<name, value>>))

\* url.searchParams.append(name, value)
SearchParamsAppend(url, name, value) ==
    UpdateQuery(url, Append(url.sp, <<name, value>>))

\* url.toString()
Href(url) == url.path \o url.query \o url.fragment

(***************************************************************************)
(* CivitaiClient.buildUrl                                                  *)
(***************************************************************************)
NoError == [name |-> "", message |-> ""]
Built(url) == [ok |-> TRUE, url |-> url, error |-> NoError]
Thrown(url, e) == [ok |-> FALSE, url |-> url, error |-> e]

RECURSIVE AppendEach(_, _, _)
\* value.forEach(v => url.searchParams.append(key, v.toString()))
AppendEach(url, key, arr) ==
    IF arr = <<>> THEN Built(url)
    ELSE IF ~CanToString(Head(arr)) THEN Thrown(url, ToStringTypeError(Head(arr)))
    ELSE AppendEach(SearchParamsAppend(url, key, ToStr(Head(arr))), key, Tail(arr))

\* AddParam with the empty-string test left out.
AddParam_NoEmptyTest(url, key, value) ==
    IF value # Undefined /\ value # Null
    THEN IF value.k = "array"
         THEN AppendEach(url, key, value.a)
         ELSE Built(SearchParamsSet(url, key, ToStr(value)))
    ELSE Built(url)

\* AddParam with a truthiness test (`if (value)`) for the three comparisons.
AddParam_Truthy(url, key, value) ==
    IF Truthy(value)
    THEN IF value.k = "array"
         THEN AppendEach(url, key, value.a)
         ELSE Built(SearchParamsSet(url, key, ToStr(value)))
    ELSE Built(url)

\* AddParam with `value !== false` added to the three comparisons.
AddParam_NoFalse(url, key, value) ==
    IF value # Undefined /\ value # Null /\ value # Str("") /\ value # Bool(FALSE)
    THEN IF value.k = "array"
         THEN AppendEach(url, key, value.a)
         ELSE Built(SearchParamsSet(url, key, ToStr(value)))
    ELSE Built(url)

\* The callback of Object.entries(params).forEach, for one [key, value].
AddParam(url, key, value) ==
    IF value # Undefined /\ value # Null /\ value # Str("")
    THEN IF value.k = "array"
         THEN AppendEach(url, key, value.a)
         ELSE Built(SearchParamsSet(url, key, ToStr(value)))
    ELSE Built(url)

RECURSIVE AddParams(_, _)
\* Object.entries(params).forEach(...): the entries in order; a throw in the
\* callback ends the loop.
AddParams(url, entries) ==
    IF entries = <<>> THEN Built(url)
    ELSE LET r == AddParam(url, Head(entries)[1], Head(entries)[2])
         IN  IF r.ok THEN AddParams(r.url, Tail(entries)) ELSE r

\* buildUrl's token step with the test of the token left out.
AddToken_Always(url) ==
    SearchParamsSet(url, "token",
                    IF CanToString(apiKey) THEN ToStr(apiKey) ELSE "undefined")

\* `if (this.apiKey) url.searchParams.set('token', this.apiKey)`
AddToken(url) ==
    IF Truthy(apiKey) THEN SearchParamsSet(url, "token", ToStr(apiKey)) ELSE url

\* buildUrl(endpoint, params): the URL string, or the error thrown.
buildUrl(endpoint, bag) ==
    LET r == AddParams(AddToken(NewURL(baseUrl \o endpoint)), bag)
    IN  [ok |-> r.ok, href |-> IF r.ok THEN Href(r.url) ELSE "", error |-> r.error]


(***************************************************************************)
(* The schema layer (types.ts).  A schema is a record; Parse is zod's      *)
(* `schema.parse` on a decoded JSON value: objects strip undeclared keys,  *)
(* an optional key absent from the input stays absent, and every issue is  *)
(* collected with its path.                                                *)
(***************************************************************************)
ZNumber == [t |-> "number"]
ZString == [t |-> "string"]
ZBoolean == [t |-> "boolean"]
ZAny == [t |-> "any"]
ZEnum(vals) == [t |-> "enum", vals |-> vals]
\* An optional that takes null as well.
ZOptional_Nullish(S) == [t |-> "optional", of |-> [t |-> "nullable", of |-> S]]

ZOptional(S) == [t |-> "optional", of |-> S]
ZNullable(S) == [t |-> "nullable", of |-> S]
ZUnion(opts) == [t |-> "union", opts |-> opts]
ZArray(S) == [t |-> "array", of |-> S]
ZRecord(S) == [t |-> "record", of |-> S]
ZObject(shape) == [t |-> "object", shape |-> shape]

NSFWLevel == ZEnum({"None", "Soft", "Mature", "X"})
\* A model type that takes any string.
ModelType_AnyString == [t |-> "string"]

ModelType ==
    ZEnum({"Checkpoint", "TextualInversion", "Hypernetwork", "AestheticGradient",
           "LORA", "Controlnet", "Poses"})
ModelMode == ZOptional(ZNullable(ZEnum({"Archived", "TakenDown"})))
FileFormat == ZEnum({"SafeTensor", "PickleTensor", "Other"})
FileSize == ZEnum({"full", "pruned"})
FloatingPoint == ZEnum({"fp16", "fp32", "bf16"})

MetadataSchema ==
    ZObject(<<
        <<"totalItems", ZOptional(ZNumber)>>,
        <<"currentPage", ZOptional(ZNumber)>>,
        <<"pageSize", ZOptional(ZNumber)>>,
        <<"totalPages", ZOptional(ZNumber)>>,
        <<"nextPage", ZOptional(ZString)>>,
        <<"prevPage", ZOptional(ZString)>>,
        <<"nextCursor", ZOptional(ZUnion(<<ZNumber, ZString>>))>> >>)

StatsSchema ==
    ZObject(<<
        <<"downloadCount", ZOptional(ZNumber)>>,
        <<"favoriteCount", ZOptional(ZNumber)>>,
        <<"commentCount", ZOptional(ZNumber)>>,
        <<"ratingCount", ZOptional(ZNumber)>>,
        <<"rating", ZOptional(ZNumber)>>,
        <<"cryCount", ZOptional(ZNumber)>>,
        <<"laughCount", ZOptional(ZNumber)>>,
        <<"likeCount", ZOptional(ZNumber)>>,
        <<"heartCount", ZOptional(ZNumber)>>,
        <<"dislikeCount", ZOptional(ZNumber)>> >>)

CreatorSchema ==
    ZObject(<<
        <<"username", ZString>>,
        <<"image", ZOptional(ZNullable(ZString))>>,
        <<"modelCount", ZOptional(ZNumber)>>,
        <<"link", ZOptional(ZString)>> >>)

FileMetadataSchema ==
    ZOptional(ZObject(<<
        <<"fp", ZOptional(ZNullable(FloatingPoint))>>,
        <<"size", ZOptional(ZNullable(FileSize))>>,
        <<"format", ZOptional(ZNullable(FileFormat))>> >>))

ModelFileSchema ==
    ZObject(<<
        <<"sizeKb", ZOptional(ZNumber)>>,
        <<"pickleScanResult", ZOptional(ZString)>>,
        <<"virusScanResult", ZOptional(ZString)>>,
        <<"scannedAt", ZOptional(ZNullable(ZString))>>,
        <<"primary", ZOptional(ZBoolean)>>,
        <<"metadata", FileMetadataSchema>> >>)

ImageSchema ==
    ZObject(<<
        <<"id", ZOptional(ZNumber)>>,
        <<"url", ZString>>,
        <<"hash", ZString>>,
        <<"width", ZNumber>>,
        <<"height", ZNumber>>,
        <<"nsfw", ZOptional(ZBoolean)>>,
        <<"nsfwLevel", ZOptional(ZUnion(<<NSFWLevel, ZNumber>>))>>,
        <<"createdAt", ZOptional(ZString)>>,
        <<"postId", ZOptional(ZNumber)>>,
        <<"stats", ZOptional(StatsSchema)>>,
        <<"meta", ZOptional(ZNullable(ZRecord(ZAny)))>>,
        <<"username", ZOptional(ZString)>>,
        <<"modelVersionIds", ZOptional(ZArray(ZNumber))>>,
        <<"type", ZOptional(ZString)>>,
        <<"browsingLevel", ZOptional(ZNumber)>> >>)

ModelVersionSchema ==
    ZObject(<<
        <<"id", ZNumber>>,
        <<"name", ZString>>,
        <<"description", ZOptional(ZNullable(ZString))>>,
        <<"createdAt", ZOptional(ZString)>>,
        <<"downloadUrl", ZOptional(ZString)>>,
        <<"trainedWords", ZOptional(ZArray(ZString))>>,
        <<"files", ZOptional(ZArray(ModelFileSchema))>>,
        <<"images", ZOptional(ZArray(ImageSchema))>>,
        <<"stats", ZOptional(StatsSchema)>>,
        <<"index", ZOptional(ZNumber)>>,
        <<"baseModel", ZOptional(ZString)>> >>)

ModelSchema ==
    ZObject(<<
        <<"id", ZNumber>>,
        <<"name", ZString>>,
        <<"description", ZString>>,
        <<"type", ModelType>>,
        <<"nsfw", ZBoolean>>,
        <<"tags", ZArray(ZString)>>,
        <<"mode", ModelMode>>,
        <<"creator", CreatorSchema>>,
        <<"stats", ZOptional(StatsSchema)>>,
        <<"modelVersions", ZArray(ModelVersionSchema)>>,
        <<"poi", ZOptional(ZBoolean)>> >>)

TagSchema ==
    ZObject(<<
        <<"name", ZString>>,
        <<"modelCount", ZOptional(ZNumber)>>,
        <<"link", ZOptional(ZString)>> >>)

ModelsResponseSchema ==
    ZObject(<< <<"items", ZArray(ModelSchema)>>, <<"metadata", MetadataSchema>> >>)

ImagesResponseSchema ==
    ZObject(<< <<"items", ZArray(ImageSchema)>>, <<"metadata", MetadataSchema>> >>)

CreatorsResponseSchema ==
    ZObject(<< <<"items", ZArray(CreatorSchema)>>, <<"metadata", MetadataSchema>> >>)

TagsResponseSchema ==
    ZObject(<< <<"items", ZArray(TagSchema)>>, <<"metadata", MetadataSchema>> >>)

ModelVersionResponseSchema ==
    ZObject(<<
        <<"id", ZNumber>>,
        <<"name", ZString>>,
        <<"description", ZString>>,
        <<"model", ZObject(<<
            <<"name", ZString>>,
            <<"type", ModelType>>,
            <<"nsfw", ZBoolean>>,
            <<"poi", ZOptional(ZBoolean)>>,
            <<"mode", ModelMode>> >>)>>,
        <<"modelId", ZNumber>>,
        <<"createdAt", ZString>>,
        <<"downloadUrl", ZString>>,
        <<"trainedWords", ZArray(ZString)>>,
        <<"files", ZArray(ModelFileSchema)>>,
        <<"stats", StatsSchema>>,
        <<"images", ZArray(ImageSchema)>> >>)

\* The outcome of a parse: the value, or the issues (code and path).
ParseOk(v) == [ok |-> TRUE, value |-> v, issues |-> <<>>]
ParseFail(issues) == [ok |-> FALSE, value |-> Undefined, issues |-> issues]
Issue(code, path) == [code |-> code, path |-> path]

RECURSIVE Flatten(_)
Flatten(seqs) == IF seqs = <<>> THEN <<>> ELSE Head(seqs) \o Flatten(Tail(seqs))

\* `ctx.data[key]`: undefined for a key the object does not have.
Field(v, key) == IF key \in DOMAIN v.o THEN v.o[key] ELSE Undefined

RECURSIVE Parse(_, _, _)

\* An array parse that keeps the valid elements and drops the others.
ParseArray_SkipInvalid(S, v, path) ==
    IF v.k # "array" THEN ParseFail(<<Issue("invalid_type", path)>>)
    ELSE LET rs == [i \in 1..Len(v.a) |->
                        Parse(S.of, v.a[i], Append(path, ToString(i - 1)))]
         IN  ParseOk(Arr(Flatten([i \in 1..Len(rs) |->
                                    IF rs[i].ok THEN <<rs[i].value>> ELSE <<>>])))

\* ZodArray: every element is parsed; one invalid element fails the array.
ParseArray(S, v, path) ==
    IF v.k # "array" THEN ParseFail(<<Issue("invalid_type", path)>>)
    ELSE LET rs == [i \in 1..Len(v.a) |->
                        Parse(S.of, v.a[i], Append(path, ToString(i - 1)))]
         IN  IF \A i \in 1..Len(rs) : rs[i].ok
             THEN ParseOk(Arr([i \in 1..Len(rs) |-> rs[i].value]))
             ELSE ParseFail(Flatten([i \in 1..Len(rs) |-> rs[i].issues]))

\* An object parse that keeps the keys the schema does not declare.
ParseObject_Passthrough(S, v, path) ==
    IF v.k # "object" THEN ParseFail(<<Issue("invalid_type", path)>>)
    ELSE LET n == Len(S.shape)
             rs == [i \in 1..n |->
                        Parse(S.shape[i][2], Field(v, S.shape[i][1]),
                              Append(path, S.shape[i][1]))]
             idx(key) == CHOOSE i \in 1..n : S.shape[i][1] = key
             declared == {S.shape[i][1] : i \in 1..n}
         IN  IF \A i \in 1..n : rs[i].ok
             THEN ParseOk(Obj([key \in DOMAIN v.o |->
                                  IF key \in declared THEN rs[idx(key)].value
                                  ELSE v.o[key]]))
             ELSE ParseFail(Flatten([i \in 1..n |-> rs[i].issues]))

\* An object parse that leaves out the keys whose value is null.
ParseObject_DropNull(S, v, path) ==
    IF v.k # "object" THEN ParseFail(<<Issue("invalid_type", path)>>)
    ELSE LET n == Len(S.shape)
             rs == [i \in 1..n |->
                        Parse(S.shape[i][2], Field(v, S.shape[i][1]),
                              Append(path, S.shape[i][1]))]
             set == {i \in 1..n : rs[i].value \notin {Undefined, Null}}
             idx(key) == CHOOSE i \in set : S.shape[i][1] = key
         IN  IF \A i \in 1..n : rs[i].ok
             THEN ParseOk(Obj([key \in {S.shape[i][1] : i \in set} |->
                                  rs[idx(key)].value]))
             ELSE ParseFail(Flatten([i \in 1..n |-> rs[i].issues]))

\* ZodObject (unknown keys stripped): every declared key is parsed, and it
\* is set in the output when the input has it or its parsed value is defined.
ParseObject(S, v, path) ==
    IF v.k # "object" THEN ParseFail(<<Issue("invalid_type", path)>>)
    ELSE LET n == Len(S.shape)
             rs == [i \in 1..n |->
                        Parse(S.shape[i][2], Field(v, S.shape[i][1]),
                              Append(path, S.shape[i][1]))]
             set == {i \in 1..n :
                        S.shape[i][1] \in DOMAIN v.o \/ rs[i].value # Undefined}
             idx(key) == CHOOSE i \in set : S.shape[i][1] = key
         IN  IF \A i \in 1..n : rs[i].ok
             THEN ParseOk(Obj([key \in {S.shape[i][1] : i \in set} |->
                                  rs[idx(key)].value]))
             ELSE ParseFail(Flatten([i \in 1..n |-> rs[i].issues]))

\* A union that tries its first option only.
ParseUnion_FirstOnly(S, v, path) == Parse(S.opts[1], v, path)

\* A union that accepts numbers and strings and returns them as strings.
ParseUnion_Stringify(S, v, path) ==
    IF v.k \in {"number", "string"} THEN ParseOk(Str(ToStr(v)))
    ELSE ParseFail(<<Issue("invalid_union", path)>>)

\* ZodUnion: the first option that accepts the value.
ParseUnion(S, v, path) ==
    LET rs == [i \in 1..Len(S.opts) |-> Parse(S.opts[i], v, path)]
        oks == {i \in 1..Len(rs) : rs[i].ok}
    IN  IF oks = {} THEN ParseFail(<<Issue("invalid_union", path)>>)
        ELSE rs[CHOOSE i \in oks : \A j \in oks : i <= j]

Parse(S, v, path) ==
    CASE S.t = "any" -> ParseOk(v)
      [] S.t \in {"number", "string", "boolean"} ->
            IF v.k = S.t THEN ParseOk(v)
            ELSE ParseFail(<<Issue("invalid_type", path)>>)
      [] S.t = "enum" ->
            IF v.k # "string" THEN ParseFail(<<Issue("invalid_type", path)>>)
            ELSE IF v.s \in S.vals THEN ParseOk(v)
            ELSE ParseFail(<<Issue("invalid_enum_value", path)>>)
      [] S.t = "optional" ->
            IF v = Undefined THEN ParseOk(Undefined) ELSE Parse(S.of, v, path)
      [] S.t = "nullable" ->
            IF v = Null THEN ParseOk(Null) ELSE Parse(S.of, v, path)
      [] S.t = "union" -> ParseUnion(S, v, path)
      [] S.t = "array" -> ParseArray(S, v, path)
      [] S.t = "record" ->
            IF v.k = "object" THEN ParseOk(v)
            ELSE ParseFail(<<Issue("invalid_type", path)>>)
      [] S.t = "object" -> ParseObject(S, v, path)

\* ZodError.message: the JSON text of the issues (here their code and path;
\* the expected/received/message members and the indentation are left out).
IssueText(i) ==
    "{\"code\":\"" \o i.code \o "\",\"path\":[" \o JoinStrings(i.path, ",") \o "]}"

ZodMessage(issues) ==
    "[" \o JoinStrings([i \in 1..Len(issues) |-> IssueText(issues[i])], ",") \o "]"


(***************************************************************************)
(* Calls and their bookkeeping.                                            *)
(***************************************************************************)
Calls == {"a", "b"}

NotBuilt == [ok |-> FALSE, href |-> "", error |-> NoError]
NoRequest == [sent |-> FALSE, url |-> "", headers |-> <<>>]
NoResponse ==
    [status |-> 0, statusText |-> "", jsonCalls |-> 0, parseCalls |-> 0,
     body |-> Undefined]
NoOutcome ==
    [kind |-> "none", value |-> Undefined, error |-> NoError, cause |-> "",
     thrown |-> NoError]
NoTool == [name |-> "", arguments |-> Undefined]
NoReply == [kind |-> "none", text |-> "", error |-> NoError]

ListOps == {"getModels", "getImages", "getCreators", "getTags"}

\* The endpoint each list operation hands to buildUrl.
ListEndpoint(o) ==
    CASE o = "getModels" -> "/models"
      [] o = "getImages" -> "/images"
      [] o = "getCreators" -> "/creators"
      [] o = "getTags" -> "/tags"

(***************************************************************************)
(* Inputs: tokens and parameter bags.  A bag is the list of the object's   *)
(* own [key, value] entries in insertion order, with distinct keys.        *)
(***************************************************************************)
Tokens == {Undefined, Str(""), Str("k1")}

ParamKeys == {"query", "types", "token"}

ScalarValues ==
    {Undefined, Null, Str(""), Str("a b"), Num(0), Num(20), Bool(FALSE)}

ArrayElements == {Str("x,y"), Num(1)}

SeqsUpTo(S, n) == UNION {[1..m -> S] : m \in 0..n}

ArrayValues == {Arr(a) : a \in SeqsUpTo(ArrayElements, MaxArrLen)}

ParamValues == ScalarValues \cup ArrayValues

\* Bags of at most two entries.
Bags ==
    {<<>>}
    \cup {<<<<k, v>>>> : k \in ParamKeys, v \in ParamValues}
    \cup {<<<<ks[1], v1>>, <<ks[2], v2>>>> :
            ks \in {x \in ParamKeys \X ParamKeys : x[1] # x[2]},
            v1 \in ParamValues, v2 \in ParamValues}

Idle ==
    /\ pc = [c \in Calls |-> "idle"]
    /\ op = [c \in Calls |-> "none"]
    /\ args = [c \in Calls |-> <<>>]
    /\ schema = [c \in Calls |-> ""]
    /\ params = [c \in Calls |-> <<>>]
    /\ built = [c \in Calls |-> NotBuilt]
    /\ request = [c \in Calls |-> NoRequest]
    /\ nreq = [c \in Calls |-> 0]
    /\ response = [c \in Calls |-> NoResponse]
    /\ outcome = [c \in Calls |-> NoOutcome]
    /\ tool = [c \in Calls |-> NoTool]
    /\ reply = [c \in Calls |-> NoReply]

\* constructor(apiKey): the base endpoint is fixed, the token is the caller's.
Init ==
    /\ baseUrl = "https://civitai.com/api/v1"
    /\ apiKey \in Tokens
    /\ Idle

(***************************************************************************)
(* URL building on its own: a list operation up to the URL it builds.      *)
(***************************************************************************)
BuildListUrl(c) ==
    /\ pc[c] = "idle"
    /\ \E o \in ListOps, bag \in Bags :
         /\ op' = [op EXCEPT ![c] = o]
         /\ args' = [args EXCEPT ![c] = <<Bag(bag)>>]
         /\ params' = [params EXCEPT ![c] = bag]
         /\ built' = [built EXCEPT ![c] = buildUrl(ListEndpoint(o), bag)]
    /\ pc' = [pc EXCEPT ![c] = "built"]
    /\ UNCHANGED <<tool, reply, baseUrl, apiKey, schema, request, nreq, response,
                   outcome>>

\* The caller drops the URL; the call slot is free again.
Discard(c) ==
    /\ pc[c] = "built"
    /\ pc' = [pc EXCEPT ![c] = "idle"]
    /\ op' = [op EXCEPT ![c] = "none"]
    /\ args' = [args EXCEPT ![c] = <<>>]
    /\ params' = [params EXCEPT ![c] = <<>>]
    /\ built' = [built EXCEPT ![c] = NotBuilt]
    /\ UNCHANGED <<tool, reply, baseUrl, apiKey, schema, request, nreq, response,
                   outcome>>

NextUrl == BuildListUrl("a") \/ Discard("a")

SpecUrl == Init /\ [][NextUrl]_vars


(***************************************************************************)
(* What upstream may answer.                                               *)
(***************************************************************************)
StatusLines ==
    {<<200, "OK">>, <<299, "">>, <<404, "Not Found">>,
     <<429, "Too Many Requests">>, <<500, "Internal Server Error">>}

\* response.ok
IsOk(status) == status >= 200 /\ status <= 299

\* The errors fetch rejects with when the request to `url` cannot complete.
TransportErrors(url) ==
    {[name |-> "FetchError",
      message |-> "request to " \o url \o " failed, reason: " \o reason] :
        reason \in {"getaddrinfo ENOTFOUND civitai.com", "connect ECONNREFUSED"}}

\* The error response.json() rejects with when the body stops early.
BodyErrors(url) ==
    {[name |-> "FetchError",
      message |-> "Invalid response body while trying to fetch " \o url
                     \o ": Premature close"]}

\* A body that is not JSON text, and the error JSON.parse throws on it.
NotJson == [k |-> "notjson"]
JsonSyntaxError ==
    [name |-> "SyntaxError", message |-> "Unexpected token < in JSON at position 0"]

GoodMetadata == Obj([totalItems |-> Num(1), nextCursor |-> Str("abc123")])

GoodCreator == Obj([username |-> Str("u")])
BadCreator == Obj([username |-> Num(5)])

GoodTag == Obj([name |-> Str("t"), modelCount |-> Num(3)])
BadTag == Obj([modelCount |-> Num(3)])

GoodImage ==
    Obj([url |-> Str("https://image"), hash |-> Str("h"), width |-> Num(512),
         height |-> Num(512), nsfwLevel |-> Num(2)])
BadImage == Obj([url |-> Str("https://image"), width |-> Num(512), height |-> Num(512)])

GoodModel ==
    Obj([id |-> Num(1), name |-> Str("m"), description |-> Str("d"),
         type |-> Str("LORA"), nsfw |-> Bool(FALSE), tags |-> Arr(<<>>),
         mode |-> Null, creator |-> GoodCreator, modelVersions |-> Arr(<<>>)])
\* A model with stats and one version that has all the lists.
FullModel ==
    Obj([id |-> Num(2), name |-> Str("full"), description |-> Str("d"),
         type |-> Str("Checkpoint"), nsfw |-> Bool(FALSE), tags |-> Arr(<<Str("t")>>),
         creator |-> GoodCreator, stats |-> Obj([downloadCount |-> Num(9)]),
         modelVersions |-> Arr(<<
            Obj([id |-> Num(7), name |-> Str("v1"), trainedWords |-> Arr(<<>>),
                 files |-> Arr(<<>>), images |-> Arr(<<>>),
                 stats |-> Obj([downloadCount |-> Num(9)])])>>)])
\* A model without the required `type`.
BadModel ==
    Obj([id |-> Num(1), name |-> Str("m"), description |-> Str("d"),
         nsfw |-> Bool(FALSE), tags |-> Arr(<<>>),
         mode |-> Null, creator |-> GoodCreator, modelVersions |-> Arr(<<>>)])

GoodVersion ==
    Obj([id |-> Num(7), name |-> Str("v1"), description |-> Str("d"),
         model |-> Obj([name |-> Str("m"), type |-> Str("LORA"), nsfw |-> Bool(FALSE)]),
         modelId |-> Num(1), createdAt |-> Str("2024-01-01"),
         downloadUrl |-> Str("https://dl"), trainedWords |-> Arr(<<>>),
         files |-> Arr(<<>>), stats |-> Obj([downloadCount |-> Num(9)]),
         images |-> Arr(<<GoodImage>>)])
\* A version whose one image lacks the required `hash`.
BadVersion ==
    Obj([id |-> Num(7), name |-> Str("v1"), description |-> Str("d"),
         model |-> Obj([name |-> Str("m"), type |-> Str("LORA"), nsfw |-> Bool(FALSE)]),
         modelId |-> Num(1), createdAt |-> Str("2024-01-01"),
         downloadUrl |-> Str("https://dl"), trainedWords |-> Arr(<<>>),
         files |-> Arr(<<>>), stats |-> Obj([downloadCount |-> Num(9)]),
         images |-> Arr(<<BadImage>>)])

ListSchemas == {"ModelsResponse", "ImagesResponse", "CreatorsResponse", "TagsResponse"}

GoodItem(name) ==
    CASE name = "ModelsResponse" -> GoodModel
      [] name = "ImagesResponse" -> GoodImage
      [] name = "CreatorsResponse" -> GoodCreator
      [] name = "TagsResponse" -> GoodTag

BadItem(name) ==
    CASE name = "ModelsResponse" -> BadModel
      [] name = "ImagesResponse" -> BadImage
      [] name = "CreatorsResponse" -> BadCreator
      [] name = "TagsResponse" -> BadTag

ListBody(items) == Obj([items |-> Arr(items), metadata |-> GoodMetadata])

\* The bodies upstream may send in answer to a request validated by schema
\* `name`: lists of valid and invalid items, a list without its metadata,
\* JSON null, and text that is not JSON.
Bodies(name) ==
    {NotJson, Null}
    \cup (IF name \in ListSchemas
          THEN {ListBody(items) :
                    items \in SeqsUpTo({GoodItem(name), BadItem(name)}, MaxItems)}
               \cup {Obj([items |-> Arr(<<GoodItem(name)>>)])}
          ELSE IF name = "Model" THEN {GoodModel, FullModel, BadModel}
          ELSE {GoodVersion, BadVersion})

SchemaNamed(name) ==
    CASE name = "ModelsResponse" -> ModelsResponseSchema
      [] name = "ImagesResponse" -> ImagesResponseSchema
      [] name = "CreatorsResponse" -> CreatorsResponseSchema
      [] name = "TagsResponse" -> TagsResponseSchema
      [] name = "Model" -> ModelSchema
      [] name = "ModelVersionResponse" -> ModelVersionResponseSchema
      [] name = "ModelVersion" -> ModelVersionSchema
      [] name = "Image" -> ImageSchema
      [] name = "Creator" -> CreatorSchema
      [] name = "Tag" -> TagSchema
      [] name = "Metadata" -> MetadataSchema
      [] name = "Stats" -> StatsSchema
      [] name = "ModelFile" -> ModelFileSchema
      [] name = "FileMetadata" -> FileMetadataSchema

(***************************************************************************)
(* CivitaiClient.makeRequest, step by step: the call to fetch, the         *)
(* continuation after `await fetch(...)`, and the continuation after       *)
(* `await response.json()`.                                                *)
(***************************************************************************)
ErrorClasses == {"Error", "TypeError", "SyntaxError", "FetchError", "ZodError"}

\* A catch clause that rethrows what it caught.
Wrap_Rethrow(e) == e

\* A catch clause that drops the message of what it caught.
Wrap_NoMessage(e) == [name |-> "Error", message |-> "API request failed: Unknown error"]

\* The catch clause of makeRequest.
Wrap(e) ==
    [name |-> "Error",
     message |-> "API request failed: "
                    \o (IF e.name \in ErrorClasses THEN e.message ELSE "Unknown error")]

\* The HTTP error without the status text.
HttpError_NoStatusText(status, statusText) ==
    [name |-> "Error", message |-> "HTTP " \o ToString(status)]

\* `throw new Error(`HTTP ${response.status}: ${response.statusText}`)`
HttpError(status, statusText) ==
    [name |-> "Error",
     message |-> "HTTP " \o ToString(status) \o ": " \o statusText]

\* The headers object handed to fetch.
RequestHeaders ==
    IF Truthy(apiKey)
    THEN ("Content-Type" :> "application/json")
            @@ ("Authorization" :> ("Bearer " \o ToStr(apiKey)))
    ELSE ("Content-Type" :> "application/json")

Returned(v) ==
    [kind |-> "value", value |-> v, error |-> NoError, cause |-> "", thrown |-> NoError]

\* A failure the caller receives: `error`, raised because of `thrown`.
Failed(e, cause, thrown) ==
    [kind |-> "error", value |-> Undefined, error |-> e, cause |-> cause,
     thrown |-> thrown]

RECURSIVE EntryValue(_, _)
\* obj[key] on a list of entries.
EntryValue(entries, key) ==
    IF entries = <<>> THEN Undefined
    ELSE IF Head(entries)[1] = key THEN Head(entries)[2]
    ELSE EntryValue(Tail(entries), key)

\* A client that takes a `token` of the parameter bag as its token from
\* then on.
Invoke_KeepsToken(c, o, a, endpoint, bag, sch) ==
    LET b == buildUrl(endpoint, bag)
        t == EntryValue(bag, "token")
    IN  /\ pc[c] = "idle"
        /\ op' = [op EXCEPT ![c] = o]
        /\ args' = [args EXCEPT ![c] = a]
        /\ schema' = [schema EXCEPT ![c] = sch]
        /\ params' = [params EXCEPT ![c] = bag]
        /\ built' = [built EXCEPT ![c] = b]
        /\ apiKey' = IF t.k = "string" THEN t ELSE apiKey
        /\ IF b.ok
           THEN /\ request' = [request EXCEPT ![c] =
                        [sent |-> TRUE, url |-> b.href, headers |-> RequestHeaders]]
                /\ nreq' = [nreq EXCEPT ![c] = @ + 1]
                /\ pc' = [pc EXCEPT ![c] = "fetching"]
                /\ UNCHANGED outcome
           ELSE /\ outcome' = [outcome EXCEPT ![c] = Failed(b.error, "build", b.error)]
                /\ pc' = [pc EXCEPT ![c] = "done"]
                /\ UNCHANGED <<request, nreq>>
        /\ UNCHANGED <<baseUrl, response>>

\* A client method is invoked: buildUrl(endpoint, bag), then makeRequest(url,
\* schema) up to `await fetch(url, {headers})`.  An error thrown by buildUrl
\* is thrown before makeRequest's try block is entered.
Invoke(c, o, a, endpoint, bag, sch) ==
    LET b == buildUrl(endpoint, bag)
    IN  /\ pc[c] = "idle"
        /\ op' = [op EXCEPT ![c] = o]
        /\ args' = [args EXCEPT ![c] = a]
        /\ schema' = [schema EXCEPT ![c] = sch]
        /\ params' = [params EXCEPT ![c] = bag]
        /\ built' = [built EXCEPT ![c] = b]
        /\ IF b.ok
           THEN /\ request' = [request EXCEPT ![c] =
                        [sent |-> TRUE, url |-> b.href, headers |-> RequestHeaders]]
                /\ nreq' = [nreq EXCEPT ![c] = @ + 1]
                /\ pc' = [pc EXCEPT ![c] = "fetching"]
                /\ UNCHANGED outcome
           ELSE /\ outcome' = [outcome EXCEPT ![c] = Failed(b.error, "build", b.error)]
                /\ pc' = [pc EXCEPT ![c] = "done"]
                /\ UNCHANGED <<request, nreq>>
        /\ UNCHANGED <<baseUrl, apiKey, response>>

\* A rejection that fails every call whose request is out, as calls that
\* share one connection would fail.
FetchRejects_FailsAll(c) ==
    /\ pc[c] = "fetching"
    /\ \E e \in TransportErrors(request[c].url) :
         outcome' = [d \in Calls |->
                        IF pc[d] = "fetching" THEN Failed(Wrap(e), "transport", e)
                        ELSE outcome[d]]
    /\ pc' = [d \in Calls |-> IF pc[d] = "fetching" THEN "done" ELSE pc[d]]
    /\ UNCHANGED <<tool, reply, baseUrl, apiKey, op, args, schema, params, built,
                   request, nreq, response>>

\* fetch rejects: the catch clause rethrows.
FetchRejects(c) ==
    /\ pc[c] = "fetching"
    /\ \E e \in TransportErrors(request[c].url) :
         outcome' = [outcome EXCEPT ![c] = Failed(Wrap(e), "transport", e)]
    /\ pc' = [pc EXCEPT ![c] = "done"]
    /\ UNCHANGED <<tool, reply, baseUrl, apiKey, op, args, schema, params, built,
                   request, nreq, response>>

\* A continuation that sends the request once more after a status that is
\* not ok.
FetchResolves_Retry(c) ==
    /\ pc[c] = "fetching"
    /\ nreq[c] < 2
    /\ \E sl \in StatusLines :
         IF ~IsOk(sl[1])
         THEN /\ nreq' = [nreq EXCEPT ![c] = @ + 1]
              /\ UNCHANGED <<pc, response, outcome>>
         ELSE /\ response' = [response EXCEPT ![c].status = sl[1],
                                              ![c].statusText = sl[2],
                                              ![c].jsonCalls = @ + 1]
              /\ pc' = [pc EXCEPT ![c] = "reading"]
              /\ UNCHANGED <<outcome, nreq>>
    /\ UNCHANGED <<tool, reply, baseUrl, apiKey, op, args, schema, params, built,
                   request>>

\* fetch resolves with a response: a status that is not ok throws the HTTP
\* error into the catch clause, an ok status goes on to response.json().
FetchResolves(c) ==
    /\ pc[c] = "fetching"
    /\ \E sl \in StatusLines :
         IF ~IsOk(sl[1])
         THEN /\ response' = [response EXCEPT ![c].status = sl[1],
                                              ![c].statusText = sl[2]]
              /\ outcome' = [outcome EXCEPT ![c] =
                    Failed(Wrap(HttpError(sl[1], sl[2])), "http", HttpError(sl[1], sl[2]))]
              /\ pc' = [pc EXCEPT ![c] = "done"]
         ELSE /\ response' = [response EXCEPT ![c].status = sl[1],
                                              ![c].statusText = sl[2],
                                              ![c].jsonCalls = @ + 1]
              /\ pc' = [pc EXCEPT ![c] = "reading"]
              /\ UNCHANGED outcome
    /\ UNCHANGED <<tool, reply, baseUrl, apiKey, op, args, schema, params, built,
                   request, nreq>>

\* response.json() settles: with the decoded body, which schema.parse then
\* accepts or rejects, or with the error of a body that is not JSON.
BodyRead(c) ==
    /\ pc[c] = "reading"
    /\ \E body \in Bodies(schema[c]) :
         IF body = NotJson
         THEN /\ outcome' = [outcome EXCEPT ![c] =
                    Failed(Wrap(JsonSyntaxError), "json", JsonSyntaxError)]
              /\ UNCHANGED response
         ELSE LET r == Parse(SchemaNamed(schema[c]), body, <<>>)
                  e == [name |-> "ZodError", message |-> ZodMessage(r.issues)]
              IN  /\ response' = [response EXCEPT ![c].parseCalls = @ + 1,
                                                  ![c].body = body]
                  /\ outcome' = [outcome EXCEPT ![c] =
                        IF r.ok THEN Returned(r.value)
                        ELSE Failed(Wrap(e), "validation", e)]
    /\ pc' = [pc EXCEPT ![c] = "done"]
    /\ UNCHANGED <<tool, reply, baseUrl, apiKey, op, args, schema, params, built,
                   request, nreq>>

\* response.json() rejects because the body could not be read to its end.
BodyFails(c) ==
    /\ pc[c] = "reading"
    /\ \E e \in BodyErrors(request[c].url) :
         outcome' = [outcome EXCEPT ![c] = Failed(Wrap(e), "transport", e)]
    /\ pc' = [pc EXCEPT ![c] = "done"]
    /\ UNCHANGED <<tool, reply, baseUrl, apiKey, op, args, schema, params, built,
                   request, nreq, response>>

\* The caller has its value or its failure; the call is over.
Return(c) ==
    /\ pc[c] = "done"
    /\ pc' = [pc EXCEPT ![c] = "idle"]
    /\ op' = [op EXCEPT ![c] = "none"]
    /\ args' = [args EXCEPT ![c] = <<>>]
    /\ schema' = [schema EXCEPT ![c] = ""]
    /\ params' = [params EXCEPT ![c] = <<>>]
    /\ built' = [built EXCEPT ![c] = NotBuilt]
    /\ request' = [request EXCEPT ![c] = NoRequest]
    /\ nreq' = [nreq EXCEPT ![c] = 0]
    /\ response' = [response EXCEPT ![c] = NoResponse]
    /\ outcome' = [outcome EXCEPT ![c] = NoOutcome]
    /\ UNCHANGED <<tool, reply, baseUrl, apiKey>>


(***************************************************************************)
(* The client's methods.                                                   *)
(***************************************************************************)
\* What callers pass: parameter bags for the list operations, ids, hashes,
\* first arguments and option bags for the search helpers, periods, limits.
CallBags ==
    {<<>>,
     <<<<"limit", Num(20)>>>>,
     <<<<"limit", Num(0)>>>>,
     <<<<"limit", Num(1000)>>, <<"page", Num(-1)>>>>,
     <<<<"query", Str("a b")>>>>,
     <<<<"query", Str("")>>>>,
     <<<<"nsfw", Bool(TRUE)>>>>,
     <<<<"types", Arr(<<Str("LORA"), Str("Poses")>>)>>>>,
     <<<<"types", Arr(<<Str("LORA"), Null>>)>>>>,
     <<<<"token", Str("zz")>>>>,
     <<<<"token", Arr(<<Str("zz")>>)>>>>}

Ids == {Num(1), Num(12345)}
Hashes == {Str("ABC123"), Str("0a1b"), Str("a?b=1"), Str("a/b#c")}
FirstArgs == {Str("anime")}
OptionBags ==
    {<<>>,
     <<<<"nsfw", Bool(TRUE)>>>>,
     <<<<"nsfw", Bool(FALSE)>>>>,
     <<<<"limit", Num(5)>>>>,
     <<<<"limit", Num(5)>>, <<"nsfw", Bool(TRUE)>>>>,
     <<<<"tag", Str("other")>>>>,
     <<<<"types", Arr(<<Str("Checkpoint")>>)>>>>}
Periods == {Undefined, Null, Str("Day")}
Limits == {Undefined, Num(5)}

\* A template literal's `${v}`.
TemplateStr(v) ==
    CASE v.k = "undefined" -> "undefined"
      [] v.k = "null" -> "null"
      [] OTHER -> ToStr(v)

\* A default that is never applied.
Default_Never(v, d) == v

\* A parameter with a default value: the default replaces undefined only.
Default(v, d) == IF v = Undefined THEN d ELSE v

RECURSIVE SetEntry(_, _, _)
\* obj[key] = value on a list of entries: an existing key keeps its place.
SetEntry(entries, key, value) ==
    IF entries = <<>> THEN <<<<key, value>>>>
    ELSE IF Head(entries)[1] = key THEN <<<<key, value>>>> \o Tail(entries)
    ELSE <<Head(entries)>> \o SetEntry(Tail(entries), key, value)

RECURSIVE Spread(_, _)
\* { ...entries, ...options }
Spread(entries, options) ==
    IF options = <<>> THEN entries
    ELSE Spread(SetEntry(entries, Head(options)[1], Head(options)[2]), Tail(options))

getModels(c, o, a, bag) == Invoke(c, o, a, "/models", bag, "ModelsResponse")

getModel(c, modelId) ==
    Invoke(c, "getModel", <<modelId>>, "/models/" \o TemplateStr(modelId), <<>>, "Model")

getModelVersion(c, modelVersionId) ==
    Invoke(c, "getModelVersion", <<modelVersionId>>,
           "/model-versions/" \o TemplateStr(modelVersionId), <<>>,
           "ModelVersionResponse")

getModelVersionByHash(c, hash) ==
    Invoke(c, "getModelVersionByHash", <<hash>>,
           "/model-versions/by-hash/" \o TemplateStr(hash), <<>>,
           "ModelVersionResponse")

\* `params = {}`: a parameter bag that is undefined is the empty bag.
ParamsOrDefault(a) == IF a = Undefined THEN <<>> ELSE a.e

getImages(c, a) ==
    Invoke(c, "getImages", <<a>>, "/images", ParamsOrDefault(a), "ImagesResponse")

getCreators(c, a) ==
    Invoke(c, "getCreators", <<a>>, "/creators", ParamsOrDefault(a), "CreatorsResponse")

getTags(c, a) ==
    Invoke(c, "getTags", <<a>>, "/tags", ParamsOrDefault(a), "TagsResponse")

\* getDownloadUrl returns what buildUrl returns: no request is made.
getDownloadUrl(c, modelVersionId) ==
    LET b == buildUrl("/download/models/" \o TemplateStr(modelVersionId), <<>>)
    IN  /\ pc[c] = "idle"
        /\ op' = [op EXCEPT ![c] = "getDownloadUrl"]
        /\ args' = [args EXCEPT ![c] = <<modelVersionId>>]
        /\ built' = [built EXCEPT ![c] = b]
        /\ outcome' = [outcome EXCEPT ![c] =
                IF b.ok THEN Returned(Str(b.href))
                ELSE Failed(b.error, "build", b.error)]
        /\ pc' = [pc EXCEPT ![c] = "done"]
        /\ UNCHANGED <<baseUrl, apiKey, schema, params, request, nreq, response>>

searchModels(c, query, options) ==
    getModels(c, "searchModels", <<query, options>>,
              Spread(<<<<"query", query>>>>, ParamsOrDefault(options)))

searchModelsByTag(c, tag, options) ==
    getModels(c, "searchModelsByTag", <<tag, options>>,
              Spread(<<<<"tag", tag>>>>, ParamsOrDefault(options)))

searchModelsByCreator(c, username, options) ==
    getModels(c, "searchModelsByCreator", <<username, options>>,
              Spread(<<<<"username", username>>>>, ParamsOrDefault(options)))

getModelsByType(c, type, options) ==
    getModels(c, "getModelsByType", <<type, options>>,
              Spread(<<<<"types", Arr(<<type>>)>>>>, ParamsOrDefault(options)))

getPopularModels(c, period, limit) ==
    getModels(c, "getPopularModels", <<period, limit>>,
              << <<"sort", Str("Most Downloaded")>>,
                 <<"period", Default(period, Str("Week"))>>,
                 <<"limit", Default(limit, Num(20))>>,
                 <<"nsfw", Bool(FALSE)>> >>)

getLatestModels(c, limit) ==
    getModels(c, "getLatestModels", <<limit>>,
              << <<"sort", Str("Newest")>>,
                 <<"limit", Default(limit, Num(20))>>,
                 <<"nsfw", Bool(FALSE)>> >>)

getTopRatedModels(c, period, limit) ==
    getModels(c, "getTopRatedModels", <<period, limit>>,
              << <<"sort", Str("Highest Rated")>>,
                 <<"period", Default(period, Str("AllTime"))>>,
                 <<"limit", Default(limit, Num(20))>>,
                 <<"nsfw", Bool(FALSE)>> >>)

\* The methods as a caller of the client invokes them.
GetModels(c) ==
    /\ \E bag \in CallBags : getModels(c, "getModels", <<Bag(bag)>>, bag)
    /\ UNCHANGED <<tool, reply>>

GetModel(c) ==
    /\ \E id \in Ids : getModel(c, id)
    /\ UNCHANGED <<tool, reply>>

GetModelVersion(c) ==
    /\ \E id \in Ids : getModelVersion(c, id)
    /\ UNCHANGED <<tool, reply>>

GetModelVersionByHash(c) ==
    /\ \E hash \in Hashes : getModelVersionByHash(c, hash)
    /\ UNCHANGED <<tool, reply>>

GetImages(c) ==
    /\ \E bag \in CallBags : getImages(c, Bag(bag))
    /\ UNCHANGED <<tool, reply>>

GetCreators(c) ==
    /\ \E bag \in CallBags : getCreators(c, Bag(bag))
    /\ UNCHANGED <<tool, reply>>

GetTags(c) ==
    /\ \E bag \in CallBags : getTags(c, Bag(bag))
    /\ UNCHANGED <<tool, reply>>

GetDownloadUrl(c) ==
    /\ \E id \in Ids : getDownloadUrl(c, id)
    /\ UNCHANGED <<tool, reply>>

SearchModels(c) ==
    /\ \E query \in FirstArgs, options \in OptionBags :
            searchModels(c, query, Bag(options))
    /\ UNCHANGED <<tool, reply>>

SearchModelsByTag(c) ==
    /\ \E tag \in FirstArgs, options \in OptionBags :
            searchModelsByTag(c, tag, Bag(options))
    /\ UNCHANGED <<tool, reply>>

SearchModelsByCreator(c) ==
    /\ \E username \in FirstArgs, options \in OptionBags :
            searchModelsByCreator(c, username, Bag(options))
    /\ UNCHANGED <<tool, reply>>

GetModelsByType(c) ==
    /\ \E type \in FirstArgs, options \in OptionBags :
            getModelsByType(c, type, Bag(options))
    /\ UNCHANGED <<tool, reply>>

GetPopularModels(c) ==
    /\ \E period \in Periods, limit \in Limits : getPopularModels(c, period, limit)
    /\ UNCHANGED <<tool, reply>>

GetLatestModels(c) ==
    /\ \E limit \in Limits : getLatestModels(c, limit)
    /\ UNCHANGED <<tool, reply>>

GetTopRatedModels(c) ==
    /\ \E period \in Periods, limit \in Limits : getTopRatedModels(c, period, limit)
    /\ UNCHANGED <<tool, reply>>

\* One caller, one call at a time.
Next ==
    \/ GetModels("a")
    \/ GetModel("a")
    \/ GetModelVersion("a")
    \/ GetModelVersionByHash("a")
    \/ GetImages("a")
    \/ GetCreators("a")
    \/ GetTags("a")
    \/ GetDownloadUrl("a")
    \/ SearchModels("a")
    \/ SearchModelsByTag("a")
    \/ SearchModelsByCreator("a")
    \/ GetModelsByType("a")
    \/ GetPopularModels("a")
    \/ GetLatestModels("a")
    \/ GetTopRatedModels("a")
    \/ FetchRejects("a")
    \/ FetchResolves("a")
    \/ BodyRead("a")
    \/ BodyFails("a")
    \/ Return("a")

Spec == Init /\ [][Next]_vars

(***************************************************************************)
(* Two calls in flight on one client: getTags and getCreators, their       *)
(* request and response steps interleaved in every order.                  *)
(***************************************************************************)
ConcurrentBags == {<<>>, <<<<"limit", Num(20)>>>>}

CallTags(c) ==
    /\ \E bag \in ConcurrentBags : getTags(c, Bag(bag))
    /\ UNCHANGED <<tool, reply>>

CallCreators(c) ==
    /\ \E bag \in ConcurrentBags : getCreators(c, Bag(bag))
    /\ UNCHANGED <<tool, reply>>

NextConcurrent ==
    \/ CallTags("a")
    \/ CallCreators("b")
    \/ \E c \in Calls : FetchRejects(c)
    \/ \E c \in Calls : FetchResolves(c)
    \/ \E c \in Calls : BodyRead(c)
    \/ \E c \in Calls : BodyFails(c)
    \/ \E c \in Calls : Return(c)

SpecConcurrent == Init /\ [][NextConcurrent]_vars

(***************************************************************************)
(* The schema layer on its own: an entity schema parses a decoded JSON     *)
(* object.                                                                 *)
(***************************************************************************)
EntitySchemas ==
    {"Model", "ModelVersion", "Image", "Creator", "Tag", "Metadata", "Stats",
     "ModelFile", "FileMetadata"}

GoodStats == Obj([downloadCount |-> Num(9), rating |-> Num(4)])

GoodFile ==
    Obj([sizeKb |-> Num(100), scannedAt |-> Null,
         metadata |-> Obj([fp |-> Str("fp16"), size |-> Null])])

GoodModelVersion ==
    Obj([id |-> Num(7), name |-> Str("v1"), description |-> Null,
         files |-> Arr(<<GoodFile>>), images |-> Arr(<<GoodImage>>)])

\* A valid object of each entity.
GoodEntity(name) ==
    CASE name = "Model" -> GoodModel
      [] name = "ModelVersion" -> GoodModelVersion
      [] name = "Image" -> GoodImage
      [] name = "Creator" -> GoodCreator
      [] name = "Tag" -> GoodTag
      [] name = "Metadata" -> GoodMetadata
      [] name = "Stats" -> GoodStats
      [] name = "ModelFile" -> GoodFile
      [] name = "FileMetadata" -> Obj([fp |-> Str("fp16"), size |-> Null])

\* The values a field is given.
FieldValues ==
    {Null, Bool(TRUE), Num(0), Num(2), Num(42), Num(-1), Str("abc123"), Str(""),
     Arr(<<>>), Obj(<<>>)}
    \cup {Str(t) : t \in {"Checkpoint", "TextualInversion", "Hypernetwork",
                          "AestheticGradient", "LORA", "Controlnet", "Poses",
                          "None", "Soft", "Mature", "X"}}

\* The keys an object schema declares.
DeclaredKeys(S) ==
    LET O == IF S.t = "optional" THEN S.of ELSE S
    IN  {O.shape[i][1] : i \in 1..Len(O.shape)}

\* The object with one more key, or with a key given another value.
With(v, key, value) == Obj((key :> value) @@ v.o)

\* The object without a key.
Without(v, key) == Obj([k \in DOMAIN v.o \ {key} |-> v.o[k]])

\* The objects an entity schema is given: the valid object, and that object
\* with one key, declared or not, set to any value or removed.
EntityInputs(name) ==
    LET g == GoodEntity(name)
        keys == DeclaredKeys(SchemaNamed(name)) \cup {"extra"}
    IN  {g} \cup {With(g, k, x) : k \in keys, x \in FieldValues}
            \cup {Without(g, k) : k \in keys}

\* schema.parse(data): the parsed value is returned or a ZodError is thrown.
\* The caller still holds `data`, which the parse leaves as it was.
Validate(c) ==
    /\ pc[c] = "idle"
    /\ \E name \in EntitySchemas :
         \E data \in EntityInputs(name) :
            LET r == Parse(SchemaNamed(name), data, <<>>)
                e == [name |-> "ZodError", message |-> ZodMessage(r.issues)]
            IN  /\ schema' = [schema EXCEPT ![c] = name]
                /\ args' = [args EXCEPT ![c] = <<data>>]
                /\ response' = [response EXCEPT ![c].parseCalls = @ + 1,
                                                ![c].body = data]
                /\ outcome' = [outcome EXCEPT ![c] =
                        IF r.ok THEN Returned(r.value)
                        ELSE Failed(e, "validation", e)]
    /\ op' = [op EXCEPT ![c] = "parse"]
    /\ pc' = [pc EXCEPT ![c] = "done"]
    /\ UNCHANGED <<tool, reply, baseUrl, apiKey, params, built, request, nreq>>

NextParse == Validate("a") \/ Return("a")

SpecParse == Init /\ [][NextParse]_vars


(***************************************************************************)
(* The MCP server (index.ts): the tool-call handler, the tool              *)
(* implementations it routes to, and the text they answer with.            *)
(***************************************************************************)
\* The names the switch of the call handler has a case for.
ToolNames ==
    {"search_models", "get_model", "get_model_version", "get_model_version_by_hash",
     "browse_images", "get_creators", "get_tags", "get_popular_models",
     "get_latest_models", "get_top_rated_models", "search_models_by_tag",
     "search_models_by_creator", "get_models_by_type", "get_download_url"}

\* A registry that leaves get_download_url out.
getTools_WithoutDownloadUrl ==
    <<"search_models", "get_model", "get_model_version", "get_model_version_by_hash",
      "browse_images", "get_creators", "get_tags", "get_popular_models",
      "get_latest_models", "get_top_rated_models", "search_models_by_tag",
      "search_models_by_creator", "get_models_by_type">>

\* getTools(): the names of the tools the server advertises, in order.
getTools ==
    <<"search_models", "get_model", "get_model_version", "get_model_version_by_hash",
      "browse_images", "get_creators", "get_tags", "get_popular_models",
      "get_latest_models", "get_top_rated_models", "search_models_by_tag",
      "search_models_by_creator", "get_models_by_type", "get_download_url">>

\* Names it has no case for.
UnknownTools == {"delete_model", "Search_Models"}

\* The `arguments` of a tool call: absent, or an object.
ServerArgs ==
    {Undefined,
     Bag(<<>>),
     Bag(<<<<"modelId", Num(1)>>>>),
     Bag(<<<<"modelVersionId", Num(12345)>>>>),
     Bag(<<<<"hash", Str("ABC123")>>>>),
     Bag(<<<<"tag", Str("anime")>>, <<"limit", Num(5)>>>>),
     Bag(<<<<"period", Str("Day")>>>>),
     Bag(<<<<"period", Null>>, <<"limit", Null>>>>),
     Bag(<<<<"types", Arr(<<Str("LORA"), Null>>)>>>>)}

\* A result of the handler with the given text.
ToolResult(text) == [kind |-> "result", text |-> text, error |-> NoError]

\* A catch clause that lets the error go on to the caller of the handler.
ToolError_Rethrow(e) == [kind |-> "thrown", text |-> "", error |-> e]

\* The catch clause of the call handler: a result whose text is the message
\* of the error caught.
ToolError(e) ==
    [kind |-> "result",
     text |-> "Error: " \o (IF e.name \in ErrorClasses THEN e.message
                            ELSE "Unknown error"),
     error |-> e]

\* `throw new Error(`Unknown tool: ${name}`)`
UnknownToolError(name) == [name |-> "Error", message |-> "Unknown tool: " \o name]

\* The TypeError of `const { key } = args` on undefined.
DestructureTypeError(key) ==
    [name |-> "TypeError",
     message |-> "Cannot destructure property '" \o key
                    \o "' of 'args' as it is undefined."]

\* The TypeError of `x.key` on undefined.
PropertyTypeError(key) ==
    [name |-> "TypeError",
     message |-> "Cannot read properties of undefined (reading '" \o key \o "')"]

\* `args.key` on an arguments object.
Prop(a, key) == EntryValue(a.e, key)

\* The handler throws before any await: the catch clause answers at once.
Throws(c, e) ==
    /\ reply' = [reply EXCEPT ![c] = ToolError(e)]
    /\ pc' = [pc EXCEPT ![c] = "replied"]
    /\ UNCHANGED <<baseUrl, apiKey, op, args, schema, params, built, request, nreq,
                   response, outcome>>

\* The handler awaits a call of the client.
Awaits(call) == call /\ UNCHANGED reply

\* The switch of the call handler and the first statements of the tool
\* implementation it routes to, up to the call of the client.
Route(c, name, a) ==
    CASE name = "search_models" ->
            Awaits(getModels(c, "getModels", <<a>>, ParamsOrDefault(a)))
      [] name = "get_model" ->
            IF a = Undefined THEN Throws(c, DestructureTypeError("modelId"))
            ELSE Awaits(getModel(c, Prop(a, "modelId")))
      [] name = "get_model_version" ->
            IF a = Undefined THEN Throws(c, DestructureTypeError("modelVersionId"))
            ELSE Awaits(getModelVersion(c, Prop(a, "modelVersionId")))
      [] name = "get_model_version_by_hash" ->
            IF a = Undefined THEN Throws(c, DestructureTypeError("hash"))
            ELSE Awaits(getModelVersionByHash(c, Prop(a, "hash")))
      [] name = "browse_images" -> Awaits(getImages(c, a))
      [] name = "get_creators" -> Awaits(getCreators(c, a))
      [] name = "get_tags" -> Awaits(getTags(c, a))
      [] name = "get_popular_models" ->
            IF a = Undefined THEN Throws(c, PropertyTypeError("period"))
            ELSE Awaits(getPopularModels(c, Prop(a, "period"), Prop(a, "limit")))
      [] name = "get_latest_models" ->
            IF a = Undefined THEN Throws(c, PropertyTypeError("limit"))
            ELSE Awaits(getLatestModels(c, Prop(a, "limit")))
      [] name = "get_top_rated_models" ->
            IF a = Undefined THEN Throws(c, PropertyTypeError("period"))
            ELSE Awaits(getTopRatedModels(c, Prop(a, "period"), Prop(a, "limit")))
      [] name = "search_models_by_tag" ->
            IF a = Undefined THEN Throws(c, PropertyTypeError("tag"))
            ELSE Awaits(searchModelsByTag(c, Prop(a, "tag"), a))
      [] name = "search_models_by_creator" ->
            IF a = Undefined THEN Throws(c, PropertyTypeError("username"))
            ELSE Awaits(searchModelsByCreator(c, Prop(a, "username"), a))
      [] name = "get_models_by_type" ->
            IF a = Undefined THEN Throws(c, PropertyTypeError("type"))
            ELSE Awaits(getModelsByType(c, Prop(a, "type"), a))
      [] name = "get_download_url" ->
            IF a = Undefined THEN Throws(c, DestructureTypeError("modelVersionId"))
            ELSE Awaits(getDownloadUrl(c, Prop(a, "modelVersionId")))
      [] OTHER -> Throws(c, UnknownToolError(name))

\* A tool call arrives and is served up to its first await.
CallTool(c) ==
    /\ pc[c] = "idle"
    /\ \E name \in ToolNames \cup UnknownTools, a \in ServerArgs :
         /\ tool' = [tool EXCEPT ![c] = [name |-> name, arguments |-> a]]
         /\ Route(c, name, a)

RECURSIVE FirstError(_)
\* The first error of a list of errors, NoError when there is none.
FirstError(es) ==
    IF es = <<>> THEN NoError
    ELSE IF Head(es) # NoError THEN Head(es) ELSE FirstError(Tail(es))

\* What formatSingleModel throws on a model: `version.files.map` and
\* `version.images.length` are read for every version, in order.
formatSingleModelError(model) ==
    LET vs == Field(model, "modelVersions").a
    IN  FirstError([i \in 1..Len(vs) |->
            IF Field(vs[i], "files") = Undefined THEN PropertyTypeError("map")
            ELSE IF Field(vs[i], "images") = Undefined THEN PropertyTypeError("length")
            ELSE NoError])

\* What the template of the get_model tool throws on the formatted model:
\* `formatted.stats.downloadCount`, then `v.stats.downloadCount` and
\* `v.trainedWords.join` for every version, in order.
getModelTextError(model) ==
    LET vs == Field(model, "modelVersions").a
    IN  IF Field(model, "stats") = Undefined THEN PropertyTypeError("downloadCount")
        ELSE FirstError([i \in 1..Len(vs) |->
                IF Field(vs[i], "stats") = Undefined
                THEN PropertyTypeError("downloadCount")
                ELSE IF Field(vs[i], "trainedWords") = Undefined
                THEN PropertyTypeError("join")
                ELSE NoError])

\* `response.metadata.totalItems || response.items.length`
TotalItems(response_) ==
    LET t == Field(Field(response_, "metadata"), "totalItems")
    IN  IF Truthy(t) THEN ToStr(t) ELSE ToString(Len(Field(response_, "items").a))

\* `args.key || d` in a template.
OrElse(v, d) == IF Truthy(v) THEN TemplateStr(v) ELSE d

\* The text a tool implementation answers with for the value its client call
\* returned, up to the first line break of the template (the sections per
\* item are left out), or the error its formatting throws.  The text of
\* get_download_url is given up to the URL (the note after it is left out).
FormatText(name, a, value) ==
    CASE name = "search_models" ->
            [error |-> NoError, text |-> "Found " \o TotalItems(value) \o " models:"]
      [] name = "get_model" ->
            [error |-> FirstError(<<formatSingleModelError(value),
                                    getModelTextError(value)>>),
             text |-> "# " \o TemplateStr(Field(value, "name"))]
      [] name = "get_model_version" ->
            [error |-> NoError,
             text |-> "# " \o TemplateStr(Field(Field(value, "model"), "name"))
                        \o " - " \o TemplateStr(Field(value, "name"))]
      [] name = "get_model_version_by_hash" ->
            [error |-> NoError, text |-> "# Model Found by Hash"]
      [] name = "browse_images" ->
            [error |-> NoError, text |-> "Found " \o TotalItems(value) \o " images:"]
      [] name = "get_creators" ->
            [error |-> NoError, text |-> "Found " \o TotalItems(value) \o " creators:"]
      [] name = "get_tags" ->
            [error |-> NoError, text |-> "Found " \o TotalItems(value) \o " tags:"]
      [] name = "get_popular_models" ->
            [error |-> NoError,
             text |-> "# Most Popular Models (" \o OrElse(Prop(a, "period"), "Week") \o ")"]
      [] name = "get_latest_models" ->
            [error |-> NoError, text |-> "# Latest Models"]
      [] name = "get_top_rated_models" ->
            [error |-> NoError,
             text |-> "# Top Rated Models (" \o OrElse(Prop(a, "period"), "AllTime") \o ")"]
      [] name = "search_models_by_tag" ->
            [error |-> NoError,
             text |-> "# Models tagged \"" \o TemplateStr(Prop(a, "tag")) \o "\""]
      [] name = "search_models_by_creator" ->
            [error |-> NoError,
             text |-> "# Models by " \o TemplateStr(Prop(a, "username"))]
      [] name = "get_models_by_type" ->
            [error |-> NoError, text |-> "# " \o TemplateStr(Prop(a, "type")) \o " Models"]
      [] name = "get_download_url" ->
            [error |-> NoError,
             text |-> "Download URL for model version "
                        \o TemplateStr(Prop(a, "modelVersionId")) \o ":\\n\\n"
                        \o value.s]

\* The awaited client call has settled: its failure is thrown into the catch
\* clause, its value is formatted, and an error thrown by the formatting is
\* caught as well.
Respond(c) ==
    /\ pc[c] = "done"
    /\ tool[c] # NoTool
    /\ LET f == FormatText(tool[c].name, tool[c].arguments, outcome[c].value)
       IN  reply' = [reply EXCEPT ![c] =
                IF outcome[c].kind = "error" THEN ToolError(outcome[c].error)
                ELSE IF f.error # NoError THEN ToolError(f.error)
                ELSE ToolResult(f.text)]
    /\ pc' = [pc EXCEPT ![c] = "replied"]
    /\ UNCHANGED <<tool, baseUrl, apiKey, op, args, schema, params, built, request,
                   nreq, response, outcome>>

\* The result has gone to the transport; nothing of the call is kept.
Close(c) ==
    /\ pc[c] = "replied"
    /\ pc' = [pc EXCEPT ![c] = "idle"]
    /\ op' = [op EXCEPT ![c] = "none"]
    /\ args' = [args EXCEPT ![c] = <<>>]
    /\ schema' = [schema EXCEPT ![c] = ""]
    /\ params' = [params EXCEPT ![c] = <<>>]
    /\ built' = [built EXCEPT ![c] = NotBuilt]
    /\ request' = [request EXCEPT ![c] = NoRequest]
    /\ nreq' = [nreq EXCEPT ![c] = 0]
    /\ response' = [response EXCEPT ![c] = NoResponse]
    /\ outcome' = [outcome EXCEPT ![c] = NoOutcome]
    /\ tool' = [tool EXCEPT ![c] = NoTool]
    /\ reply' = [reply EXCEPT ![c] = NoReply]
    /\ UNCHANGED <<baseUrl, apiKey>>

\* One tool call at a time.
NextServer ==
    \/ CallTool("a")
    \/ FetchRejects("a")
    \/ FetchResolves("a")
    \/ BodyRead("a")
    \/ BodyFails("a")
    \/ Respond("a")
    \/ Close("a")

SpecServer == Init /\ [][NextServer]_vars



(***************************************************************************)
(* Claims about the built URL.                                             *)
(***************************************************************************)
\* What the upstream server reads from the URL a call built.
SentQuery(c) == ParseQuery(QueryOf(built[c].href))

\* The occurrences of `token` that the configured token accounts for.
TokenValues == IF Truthy(apiKey) THEN <<ToStr(apiKey)>> ELSE <<>>

IsEmptyValue(v) == v \in {Undefined, Null, Str("")}

UrlBuilt(c) == pc[c] = "built" /\ built[c].ok

\* C1: a key of the bag whose value is undefined, null or the empty string
\* contributes no occurrence of that key to the query string of the URL a
\* list operation builds: the key does not occur at all, except that
\* `token` occurs once, with the configured token, when a token is
\* configured.
C1_EmptyValuesOmitted ==
    \A c \in Calls :
        UrlBuilt(c) =>
            \A i \in 1..Len(params[c]) :
                IsEmptyValue(params[c][i][2]) =>
                    ValuesOf(SentQuery(c), params[c][i][1])
                        = IF params[c][i][1] = "token" THEN TokenValues ELSE <<>>

\* A URL was built from a bag holding an empty-valued key beside a key that
\* is sent.
C1_Witness ==
    \E c \in Calls :
        /\ UrlBuilt(c)
        /\ op[c] = "getModels"
        /\ params[c] = <<<<"query", Str("")>>, <<"types", Arr(<<Str("x,y")>>)>>>>
        /\ built[c].href = "https://civitai.com/api/v1/models?types=x%2Cy"

\* C2: an array-valued key occurs in the query string exactly once per
\* element of the array, in the order of the elements, each occurrence
\* holding one element; an empty array gives no occurrence.
C2_ArrayOncePerElement ==
    \A c \in Calls :
        UrlBuilt(c) =>
            \A i \in 1..Len(params[c]) :
                LET v == params[c][i][2]
                IN  v.k = "array" =>
                        ValuesOf(SentQuery(c), params[c][i][1])
                            = [j \in 1..Len(v.a) |-> ToStr(v.a[j])]

\* C3: a key whose value is a non-empty string or a number occurs exactly
\* once in the query string, with the stringified value.
C3_ScalarOnce ==
    \A c \in Calls :
        UrlBuilt(c) =>
            \A i \in 1..Len(params[c]) :
                LET v == params[c][i][2]
                IN  (v.k = "number" \/ (v.k = "string" /\ v.s # "")) =>
                        ValuesOf(SentQuery(c), params[c][i][1]) = <<ToStr(v)>>

\* A URL was built with a token configured from a bag holding the number 0
\* and a string with a space.
C3_Witness ==
    \E c \in Calls :
        /\ UrlBuilt(c)
        /\ apiKey = Str("k1")
        /\ params[c] = <<<<"types", Num(0)>>, <<"query", Str("a b")>>>>
        /\ built[c].href = "https://civitai.com/api/v1/images?token=k1&types=0&query=a+b"


(***************************************************************************)
(* Claims about requests, responses and failures.                          *)
(***************************************************************************)
\* What the upstream server reads from the URL of the request of a call.
RequestQuery(c) == ParseQuery(QueryOf(request[c].url))

\* C4: with a token configured, the URL of every request carries exactly the
\* configured token as its `token` parameter and the request carries the
\* header `Authorization: Bearer <token>`; with no token configured the URL
\* has no `token` parameter and the request has no Authorization header.
C4_TokenInUrlAndHeader ==
    \A c \in Calls :
        request[c].sent =>
            IF Truthy(apiKey)
            THEN /\ ValuesOf(RequestQuery(c), "token") = <<ToStr(apiKey)>>
                 /\ "Authorization" \in DOMAIN request[c].headers
                 /\ request[c].headers["Authorization"] = "Bearer " \o ToStr(apiKey)
            ELSE /\ ValuesOf(RequestQuery(c), "token") = <<>>
                 /\ "Authorization" \notin DOMAIN request[c].headers

\* The kind of failure a caller can read off the failure it received.
Classify(e) ==
    IF StartsWith(e.message, "API request failed: HTTP ") THEN "http"
    ELSE IF StartsWith(e.message, "API request failed: [") THEN "validation"
    ELSE "other"

Answered(c) == pc[c] = "done" /\ response[c].status # 0

\* C5: a response whose status is not 2xx makes the operation fail with a
\* message that carries the status and the status text; the body is neither
\* decoded nor validated, and the failure reads as an HTTP failure.
C5_HttpFailure ==
    \A c \in Calls :
        (Answered(c) /\ response[c].status \notin 200..299) =>
            /\ outcome[c].kind = "error"
            /\ outcome[c].error.message =
                    "API request failed: HTTP " \o ToString(response[c].status)
                        \o ": " \o response[c].statusText
            /\ response[c].jsonCalls = 0
            /\ response[c].parseCalls = 0
            /\ Classify(outcome[c].error) = "http"

\* A list operation was answered 429.
C5_Witness ==
    \E c \in Calls :
        /\ pc[c] = "done"
        /\ op[c] = "getTags"
        /\ response[c].status = 429
        /\ outcome[c].error.message = "API request failed: HTTP 429: Too Many Requests"

\* C6: the failure of a 2xx response whose body does not match the schema
\* and the failure of a non-2xx response can be told apart from the failure
\* received: the first reads as a validation failure, the second as an HTTP
\* failure.
C6_ValidationDistinctFromHttp ==
    \A c \in Calls :
        (pc[c] = "done" /\ outcome[c].kind = "error") =>
            /\ outcome[c].cause = "validation" =>
                    Classify(outcome[c].error) = "validation"
            /\ outcome[c].cause = "http" => Classify(outcome[c].error) = "http"

\* A 200 response to getModels held a model without `type`.
C6_Witness ==
    \E c \in Calls :
        /\ pc[c] = "done"
        /\ op[c] = "getModels"
        /\ response[c].status = 200
        /\ response[c].body = ListBody(<<BadModel>>)
        /\ outcome[c].cause = "validation"
        /\ outcome[c].error.message =
              "API request failed: [{\"code\":\"invalid_type\",\"path\":[items,0,type]}]"

\* C7: an error fetch rejects with is caught and thrown again as an Error
\* whose message is `API request failed: ` followed by the message of the
\* error caught; the error caught is never what the caller receives.
C7_TransportWrapped ==
    \A c \in Calls :
        (pc[c] = "done" /\ outcome[c].cause = "transport") =>
            /\ outcome[c].kind = "error"
            /\ outcome[c].error.name = "Error"
            /\ outcome[c].error.message =
                    "API request failed: " \o outcome[c].thrown.message
            /\ outcome[c].error # outcome[c].thrown

\* fetch rejected before any response.
C7_Witness ==
    \E c \in Calls :
        /\ pc[c] = "done"
        /\ outcome[c].cause = "transport"
        /\ response[c].status = 0
        /\ outcome[c].thrown.name = "FetchError"

\* C8: an invocation issues at most one GET, also when it fails, and
\* getDownloadUrl issues none.
C8_AtMostOneRequest ==
    \A c \in Calls :
        /\ nreq[c] <= 1
        /\ nreq[c] = IF request[c].sent THEN 1 ELSE 0
        /\ op[c] = "getDownloadUrl" => nreq[c] = 0

\* An invocation failed on the status of its one response.
C8_Witness ==
    \E c \in Calls :
        /\ pc[c] = "done"
        /\ outcome[c].cause = "http"
        /\ nreq[c] = 1

\* A body every part of which is valid for the schema of that name.
WellFormed(name, body) ==
    IF name \in ListSchemas
    THEN \E n \in 0..(MaxItems + 1) : body = ListBody([i \in 1..n |-> GoodItem(name)])
    ELSE IF name = "Model" THEN body \in {GoodModel, FullModel}
    ELSE body = GoodVersion

HasBadItem(name, body) ==
    /\ name \in ListSchemas
    /\ body.k = "object"
    /\ "items" \in DOMAIN body.o
    /\ \E i \in 1..Len(body.o.items.a) : body.o.items.a[i] = BadItem(name)

\* C9: a network operation returns a value only after a 2xx response whose
\* whole body is valid; otherwise it fails with a message and returns
\* nothing.  A list with one invalid item fails as a whole.
C9_ValueOnlyIfAllValid ==
    \A c \in Calls :
        (pc[c] = "done" /\ op[c] # "getDownloadUrl") =>
            /\ outcome[c].kind = "value" =>
                    /\ response[c].status \in 200..299
                    /\ WellFormed(schema[c], response[c].body)
            /\ outcome[c].kind # "value" =>
                    /\ outcome[c].kind = "error"
                    /\ outcome[c].error.message # ""
                    /\ outcome[c].value = Undefined
            /\ HasBadItem(schema[c], response[c].body) => outcome[c].kind = "error"

\* A 200 response to getModels held a valid model and an invalid one.
C9_Witness ==
    \E c \in Calls :
        /\ pc[c] = "done"
        /\ op[c] = "getModels"
        /\ response[c].status = 200
        /\ response[c].body = ListBody(<<GoodModel, BadModel>>)
        /\ outcome[c].kind = "error"

ConvenienceOps ==
    {"getPopularModels", "getLatestModels", "getTopRatedModels",
     "searchModelsByTag", "searchModelsByCreator", "getModelsByType"}

\* The nsfw value the caller of a convenience method gave: that of the
\* options bag, for the methods that take one.
CallerNsfw(c) ==
    IF op[c] \in {"searchModelsByTag", "searchModelsByCreator", "getModelsByType"}
    THEN EntryValue(args[c][2].e, "nsfw")
    ELSE Undefined

\* C10: the request of each of the six convenience methods carries
\* nsfw=false when the caller gives no nsfw value, and the caller's value
\* when the caller gives one.
C10_NsfwDefaultFalse ==
    \A c \in Calls :
        (request[c].sent /\ op[c] \in ConvenienceOps) =>
            ValuesOf(RequestQuery(c), "nsfw")
                = <<IF CallerNsfw(c) = Undefined THEN "false" ELSE ToStr(CallerNsfw(c))>>

\* The limit the caller of a convenience method gave.
CallerLimit(c) ==
    CASE op[c] \in {"searchModelsByTag", "searchModelsByCreator", "getModelsByType"} ->
            EntryValue(ParamsOrDefault(args[c][2]), "limit")
      [] op[c] \in {"getPopularModels", "getTopRatedModels"} -> args[c][2]
      [] op[c] = "getLatestModels" -> args[c][1]

\* C11: the request of each of the six convenience methods carries limit=20
\* when the caller gives no limit, and the caller's limit when the caller
\* gives one.
C11_LimitDefault20 ==
    \A c \in Calls :
        (request[c].sent /\ op[c] \in ConvenienceOps) =>
            ValuesOf(RequestQuery(c), "limit")
                = <<IF CallerLimit(c) = Undefined THEN "20" ELSE ToStr(CallerLimit(c))>>

\* C12: getPopularModels asks for sort `Most Downloaded` with period `Week`
\* when no period is given, getTopRatedModels for sort `Highest Rated` with
\* period `AllTime` when no period is given, getLatestModels for sort `Newest`
\* and never for a period; a period the caller gives is the period sent.
C12_SortAndPeriod ==
    \A c \in Calls :
        request[c].sent =>
            LET q == RequestQuery(c)
                period == args[c][1]
                sent(d) == IF period = Undefined THEN ValuesOf(q, "period") = <<d>>
                           ELSE period.k = "string" =>
                                    ValuesOf(q, "period") = <<period.s>>
            IN  /\ op[c] = "getPopularModels" =>
                    ValuesOf(q, "sort") = <<"Most Downloaded">> /\ sent("Week")
                /\ op[c] = "getTopRatedModels" =>
                    ValuesOf(q, "sort") = <<"Highest Rated">> /\ sent("AllTime")
                /\ op[c] = "getLatestModels" =>
                    ValuesOf(q, "sort") = <<"Newest">> /\ ValuesOf(q, "period") = <<>>

\* getTopRatedModels() was called with no period and its request is out.
C12_Witness ==
    \E c \in Calls :
        /\ pc[c] = "fetching"
        /\ op[c] = "getTopRatedModels"
        /\ args[c] = <<Undefined, Undefined>>
        /\ ValuesOf(RequestQuery(c), "period") = <<"AllTime">>
        /\ ValuesOf(RequestQuery(c), "sort") = <<"Highest Rated">>

\* C13: getDownloadUrl makes no request, never fails, and returns the URL
\* `<base endpoint>/download/models/<versionId>` on host civitai.com, with
\* `token=<token>` as its query when a token is configured and with no
\* `token` parameter when none is.
C13_DownloadUrl ==
    \A c \in Calls :
        (pc[c] = "done" /\ op[c] = "getDownloadUrl") =>
            /\ nreq[c] = 0
            /\ ~request[c].sent
            /\ outcome[c].kind = "value"
            /\ outcome[c].value.k = "string"
            /\ LET href == outcome[c].value.s
               IN  /\ PathOf(href) = "https://civitai.com/api/v1/download/models/"
                                        \o ToStr(args[c][1])
                   /\ ParseQuery(QueryOf(href)) =
                        IF Truthy(apiKey) THEN <<<<"token", ToStr(apiKey)>>>> ELSE <<>>
                   /\ Truthy(apiKey) =>
                        QueryOf(href) = "token=" \o ToStr(apiKey)

\* The download URL of version 12345 with token k1 configured.
C13_Witness ==
    \E c \in Calls :
        /\ pc[c] = "done"
        /\ op[c] = "getDownloadUrl"
        /\ apiKey = Str("k1")
        /\ outcome[c].value =
                Str("https://civitai.com/api/v1/download/models/12345?token=k1")


(***************************************************************************)
(* Claims about concurrent calls.                                          *)
(***************************************************************************)
\* Everything the model keeps about one call.
Frame(c) ==
    <<pc[c], op[c], args[c], schema[c], params[c], built[c], request[c], nreq[c],
      response[c], outcome[c]>>

\* What a finished call must have received, read off its own arguments, the
\* token and its own response.
OwnOutcome(c) ==
    LET b == buildUrl(ListEndpoint(op[c]), ParamsOrDefault(args[c][1]))
        r == Parse(SchemaNamed(schema[c]), response[c].body, <<>>)
        o == outcome[c]
    IN  /\ request[c].url = b.href
        /\ CASE response[c].status = 0 ->
                    /\ o.cause = "transport"
                    /\ o.thrown \in TransportErrors(b.href)
                    /\ o.error = Wrap(o.thrown)
             [] response[c].status \notin 200..299 ->
                    o = Failed(Wrap(HttpError(response[c].status, response[c].statusText)),
                               "http",
                               HttpError(response[c].status, response[c].statusText))
             [] response[c].parseCalls = 0 ->
                    \/ o = Failed(Wrap(JsonSyntaxError), "json", JsonSyntaxError)
                    \/ /\ o.cause = "transport"
                       /\ o.thrown \in BodyErrors(b.href)
                       /\ o.error = Wrap(o.thrown)
             [] OTHER ->
                    IF r.ok THEN o = Returned(r.value)
                    ELSE /\ o.cause = "validation"
                         /\ o.error.message = "API request failed: " \o ZodMessage(r.issues)

\* C14: with two calls in flight on one client, under every interleaving of
\* their steps, what each call receives is determined by its own arguments,
\* the token and its own response, and a step of one call (its failure
\* included) changes nothing of the other call.
C14_CallsIndependent ==
    /\ [](\A c \in Calls : pc[c] = "done" => OwnOutcome(c))
    /\ [][\A c, d \in Calls :
            (c # d /\ Frame(c)' # Frame(c)) => Frame(d)' = Frame(d)]_vars

\* getTags failed on a rejected fetch while the request of getCreators was
\* out, and getCreators then received its value.
C14_Witness ==
    /\ pc["a"] = "done"
    /\ op["a"] = "getTags"
    /\ outcome["a"].cause = "transport"
    /\ response["a"].status = 0
    /\ pc["b"] = "done"
    /\ op["b"] = "getCreators"
    /\ outcome["b"].kind = "value"
    /\ response["b"].body = ListBody(<<GoodCreator, GoodCreator>>)


(***************************************************************************)
(* Claims about the tool-call handler.                                     *)
(***************************************************************************)
\* C15: the call handler lets no failure out.  Whatever the tool name and
\* whatever fails while the call is served, the handler returns a result
\* whose text is `Error: ` followed by the message of the failure
\* (`Error: Unknown tool: <name>` for a name it has no case for); and a call
\* leaves nothing behind, failed or not: between calls the server is as it
\* was when it was constructed, so the next call is served as on a fresh
\* server.
C15_HandlerCatchesAll ==
    /\ [](\A c \in Calls :
            pc[c] = "replied" =>
                /\ reply[c].kind = "result"
                /\ tool[c].name \notin ToolNames =>
                        reply[c].text = "Error: Unknown tool: " \o tool[c].name
                /\ outcome[c].kind = "error" =>
                        reply[c].text = "Error: " \o outcome[c].error.message
                /\ reply[c].error # NoError =>
                        reply[c].text = "Error: " \o reply[c].error.message
                /\ (outcome[c].kind = "value"
                        /\ tool[c].name = "get_model"
                        /\ Field(outcome[c].value, "stats") = Undefined) =>
                        reply[c].error.name = "TypeError")
    /\ [](\A c \in Calls :
            pc[c] = "idle" =>
                /\ Frame(c) = <<"idle", "none", <<>>, "", <<>>, NotBuilt, NoRequest, 0,
                                NoResponse, NoOutcome>>
                /\ tool[c] = NoTool
                /\ reply[c] = NoReply)
    /\ [][apiKey' = apiKey /\ baseUrl' = baseUrl]_vars

\* The client call of a tool failed on a 500 and the handler answered with
\* the message.
C15_Witness ==
    \E c \in Calls :
        /\ pc[c] = "replied"
        /\ tool[c].name = "get_tags"
        /\ response[c].status = 500
        /\ reply[c] = ToolError(outcome[c].error)
        /\ reply[c].text = "Error: API request failed: HTTP 500: Internal Server Error"


(***************************************************************************)
(* Claims about the schema layer.                                          *)
(***************************************************************************)
\* A parse of an entity schema is over: its input and what it came to.
Parsed(c, name) == pc[c] = "done" /\ op[c] = "parse" /\ schema[c] = name

SevenTypes ==
    {"Checkpoint", "TextualInversion", "Hypernetwork", "AestheticGradient", "LORA",
     "Controlnet", "Poses"}

IsStr(v) == v.k = "string"
IsNum(v) == v.k = "number"

\* A model object whose fields other than `type` and `modelVersions` are
\* valid: the required ones are there with their types, the optional ones are
\* absent or valid.
OtherModelFieldsValid(v) ==
    /\ IsNum(Field(v, "id"))
    /\ IsStr(Field(v, "name"))
    /\ IsStr(Field(v, "description"))
    /\ Field(v, "nsfw").k = "boolean"
    /\ Field(v, "tags") = Arr(<<>>)
    /\ Field(v, "mode") \in {Undefined, Null, Str("Archived"), Str("TakenDown")}
    /\ Field(v, "creator") = GoodCreator
    /\ Field(v, "stats") = Undefined
    /\ Field(v, "poi").k \in {"undefined", "boolean"}

\* C16: validating a Model fails when `type` is missing or is not one of the
\* seven model types, and when `modelVersions` is absent; it succeeds, with
\* `modelVersions` the empty list, for a model of one of the seven types
\* whose `modelVersions` is the empty list and whose other fields are valid.
C16_ModelTypeAndVersions ==
    \A c \in Calls :
        Parsed(c, "Model") =>
            LET v == args[c][1]
                type == Field(v, "type")
                typeOk == IsStr(type) /\ type.s \in SevenTypes
            IN  /\ ~typeOk => outcome[c].kind = "error"
                /\ Field(v, "modelVersions") = Undefined => outcome[c].kind = "error"
                /\ (typeOk /\ Field(v, "modelVersions") = Arr(<<>>)
                        /\ OtherModelFieldsValid(v)) =>
                        /\ outcome[c].kind = "value"
                        /\ Field(outcome[c].value, "modelVersions") = Arr(<<>>)

\* A model of a type that is not one of the seven was refused.
C16_Witness ==
    \E c \in Calls :
        /\ Parsed(c, "Model")
        /\ args[c][1] = With(GoodModel, "type", Str("Mature"))
        /\ outcome[c].kind = "error"
        /\ outcome[c].error.message = "[{\"code\":\"invalid_enum_value\",\"path\":[type]}]"

\* An image that has url, hash, width and height, and besides them at most
\* `id` and `nsfwLevel`.
PlainImage(v) ==
    /\ IsStr(Field(v, "url"))
    /\ IsStr(Field(v, "hash"))
    /\ IsNum(Field(v, "width"))
    /\ IsNum(Field(v, "height"))
    /\ DOMAIN v.o \subseteq {"url", "hash", "width", "height", "id", "nsfwLevel"}

\* C17: validating an Image that has url, hash, width and height succeeds
\* when `id` is absent, and `id` is then absent from the result; it succeeds
\* when `nsfwLevel` is a number, whatever the number, and when it is one of
\* None, Soft, Mature and X, and the result has the level as it was given.
C17_ImageIdAndNsfwLevel ==
    \A c \in Calls :
        (Parsed(c, "Image") /\ PlainImage(args[c][1])) =>
            LET v == args[c][1]
                level == Field(v, "nsfwLevel")
                levelOk == \/ level = Undefined
                           \/ IsNum(level)
                           \/ IsStr(level) /\ level.s \in {"None", "Soft", "Mature", "X"}
            IN  (Field(v, "id").k \in {"undefined", "number"} /\ levelOk) =>
                    /\ outcome[c].kind = "value"
                    /\ Field(outcome[c].value, "id") = Field(v, "id")
                    /\ "id" \in DOMAIN outcome[c].value.o <=> "id" \in DOMAIN v.o
                    /\ Field(outcome[c].value, "nsfwLevel") = level

\* An image without id whose nsfwLevel is the name Mature was accepted.
C17_Witness ==
    \E c \in Calls :
        /\ Parsed(c, "Image")
        /\ args[c][1] = With(GoodImage, "nsfwLevel", Str("Mature"))
        /\ outcome[c].kind = "value"
        /\ "id" \notin DOMAIN outcome[c].value.o
        /\ Field(outcome[c].value, "nsfwLevel") = Str("Mature")

\* C18: validating pagination Metadata (its counts absent or numbers, no
\* page links) succeeds when `nextCursor` is a string and when it is a
\* number, and the result has the cursor as it was given: the same string,
\* or the same number.
C18_CursorKept ==
    \A c \in Calls :
        Parsed(c, "Metadata") =>
            LET v == args[c][1]
                cursor == Field(v, "nextCursor")
                others == DeclaredKeys(MetadataSchema) \ {"nextCursor"}
            IN  (/\ IsStr(cursor) \/ IsNum(cursor)
                 /\ \A k \in others : Field(v, k).k \in {"undefined", "number"}
                 /\ \A k \in {"nextPage", "prevPage"} : Field(v, k) = Undefined) =>
                    /\ outcome[c].kind = "value"
                    /\ Field(outcome[c].value, "nextCursor") = cursor

\* Metadata whose cursor is the number 42 was accepted with the number 42.
C18_Witness ==
    \E c \in Calls :
        /\ Parsed(c, "Metadata")
        /\ Field(args[c][1], "nextCursor") = Num(42)
        /\ outcome[c].kind = "value"
        /\ Field(outcome[c].value, "nextCursor") = Num(42)

\* A minimal valid model: id, name, description, type, nsfw, tags=[],
\* mode=null, creator={username}, modelVersions=[], and nothing else.
MinimalModel(v) ==
    /\ DOMAIN v.o = {"id", "name", "description", "type", "nsfw", "tags", "mode",
                     "creator", "modelVersions"}
    /\ IsNum(v.o.id)
    /\ IsStr(v.o.name)
    /\ IsStr(v.o.description)
    /\ IsStr(v.o.type) /\ v.o.type.s \in SevenTypes
    /\ v.o.nsfw.k = "boolean"
    /\ v.o.tags = Arr(<<>>)
    /\ v.o.mode = Null
    /\ v.o.creator.k = "object"
    /\ DOMAIN v.o.creator.o = {"username"}
    /\ IsStr(v.o.creator.o.username)
    /\ v.o.modelVersions = Arr(<<>>)

\* C19: validating a minimal valid model succeeds, and every field of the
\* result is the field of the input.
C19_MinimalModelRoundTrip ==
    \A c \in Calls :
        (Parsed(c, "Model") /\ MinimalModel(args[c][1])) =>
            /\ outcome[c].kind = "value"
            /\ outcome[c].value = args[c][1]

\* The minimal model of type Checkpoint came back as it was given.
C19_Witness ==
    \E c \in Calls :
        /\ Parsed(c, "Model")
        /\ MinimalModel(args[c][1])
        /\ args[c][1].o.type = Str("Checkpoint")
        /\ outcome[c].value = args[c][1]

\* C20: for every entity schema and every input it accepts, the result has
\* no field the schema does not declare and no field the input did not have
\* (an optional field absent from the input gets no default), and the input
\* is after the parse what it was before.
C20_StripsAndInjectsNothing ==
    \A c \in Calls :
        (pc[c] = "done" /\ op[c] = "parse") =>
            /\ response[c].body = args[c][1]
            /\ outcome[c].kind = "value" =>
                    /\ DOMAIN outcome[c].value.o
                            \subseteq DeclaredKeys(SchemaNamed(schema[c]))
                    /\ DOMAIN outcome[c].value.o \subseteq DOMAIN args[c][1].o

\* A creator with a field CreatorSchema does not declare was accepted, and
\* the result has neither that field nor the optional fields left out.
C20_Witness ==
    \E c \in Calls :
        /\ Parsed(c, "Creator")
        /\ args[c][1] = With(GoodCreator, "extra", Num(42))
        /\ outcome[c].kind = "value"
        /\ outcome[c].value = GoodCreator


\* The fields the schemas declare nullable.
NullableFields ==
    {<<"Model", "mode">>, <<"ModelVersion", "description">>, <<"Creator", "image">>,
     <<"ModelFile", "scannedAt">>, <<"FileMetadata", "fp">>, <<"FileMetadata", "size">>,
     <<"FileMetadata", "format">>, <<"Image", "meta">>}

\* The fields declared as a union.
UnionFields == {<<"Image", "nsfwLevel">>, <<"Metadata", "nextCursor">>}

\* C21: a field that is present and null is accepted exactly when the field
\* is declared nullable, and the result then has the field, with null as its
\* value; a present field whose value is not of the declared type makes the
\* validation fail: null on a field that is not nullable, a value of another
\* kind than the number, string or boolean declared, an nsfwLevel string
\* that is not None, Soft, Mature or X, a boolean nextCursor.
C21_LenientOnlyWhereDeclared ==
    \A c \in Calls :
        (pc[c] = "done" /\ op[c] = "parse") =>
            LET n == schema[c]
                v == args[c][1]
                g == GoodEntity(n)
            IN  \A k \in DOMAIN v.o \cap DeclaredKeys(SchemaNamed(n)) :
                    /\ v.o[k] = Null =>
                        IF <<n, k>> \in NullableFields
                        THEN Without(v, k) = Without(g, k) =>
                                /\ outcome[c].kind = "value"
                                /\ k \in DOMAIN outcome[c].value.o
                                /\ outcome[c].value.o[k] = Null
                        ELSE outcome[c].kind = "error"
                    /\ (/\ k \in DOMAIN g.o
                        /\ <<n, k>> \notin UnionFields
                        /\ g.o[k].k \in {"number", "string", "boolean"}
                        /\ v.o[k] # Null
                        /\ v.o[k].k # g.o[k].k) => outcome[c].kind = "error"
                    /\ (<<n, k>> = <<"Image", "nsfwLevel">>
                        /\ v.o[k].k # "number"
                        /\ ~(IsStr(v.o[k]) /\ v.o[k].s \in {"None", "Soft", "Mature", "X"}))
                            => outcome[c].kind = "error"
                    /\ (<<n, k>> = <<"Metadata", "nextCursor">>
                        /\ v.o[k].k \notin {"number", "string"})
                            => outcome[c].kind = "error"

\* A creator whose image is null was accepted, with image null in the result.
C21_Witness ==
    \E c \in Calls :
        /\ Parsed(c, "Creator")
        /\ args[c][1] = With(GoodCreator, "image", Null)
        /\ outcome[c].kind = "value"
        /\ outcome[c].value.o.image = Null


(***************************************************************************)
(* Claims about identifiers in the path, parameter values and state.       *)
(***************************************************************************)
IdOps == {"getModel", "getModelVersion", "getModelVersionByHash", "getDownloadUrl"}

\* The path a method puts before the identifier.
PathPrefix(o) ==
    CASE o = "getModel" -> "/models/"
      [] o = "getModelVersion" -> "/model-versions/"
      [] o = "getModelVersionByHash" -> "/model-versions/by-hash/"
      [] o = "getDownloadUrl" -> "/download/models/"

\* C22: the identifier a method puts in the path is the last path segment of
\* the URL and nothing else of it: the path of the URL is the base endpoint,
\* the method's path and one segment that decodes to the identifier, the
\* query string has the configured token and nothing more, and there is no
\* fragment, also for an identifier with `/`, `?`, `#` or `&` in it.
C22_IdentifierEscaped ==
    \A c \in Calls :
        (op[c] \in IdOps /\ built[c].ok) =>
            LET href == built[c].href
                id == TemplateStr(args[c][1])
                before == baseUrl \o PathPrefix(op[c])
                path == PathOf(href)
                segment == From(path, Len(before) + 1)
            IN  /\ StartsWith(path, before)
                /\ IndexOf(segment, "/") = 0
                /\ FormDecode(segment) = id
                /\ ParseQuery(QueryOf(href)) =
                        IF Truthy(apiKey) THEN <<<<"token", ToStr(apiKey)>>>> ELSE <<>>
                /\ IndexOf(href, "#") = 0


Digits == {"0", "1", "2", "3", "4", "5", "6", "7", "8", "9"}

\* The decimal text of a positive integer.
IsPositiveIntegerText(s) ==
    /\ s # ""
    /\ \A i \in 1..Len(s) : CharAt(s, i) \in Digits
    /\ CharAt(s, 1) # "0"

\* The operations that end in a list-models request.
ListModelsOps ==
    {"getModels", "searchModels", "searchModelsByTag", "searchModelsByCreator",
     "getModelsByType", "getPopularModels", "getLatestModels", "getTopRatedModels"}

\* C23: a list-models request never carries a `limit` or a `page` that is
\* not a positive integer, and a positive integer the caller gives, however
\* large, is the value sent.
C23_LimitAndPagePositive ==
    \A c \in Calls :
        (request[c].sent /\ op[c] \in ListModelsOps) =>
            \A key \in {"limit", "page"} :
                /\ \A i \in 1..Len(ValuesOf(RequestQuery(c), key)) :
                        IsPositiveIntegerText(ValuesOf(RequestQuery(c), key)[i])
                /\ LET given == EntryValue(params[c], key)
                   IN  (given.k = "number" /\ given.n > 0) =>
                            ValuesOf(RequestQuery(c), key) = <<ToString(given.n)>>


(***************************************************************************)
(* Claims about the tools of the server.                                   *)
(***************************************************************************)
Advertised == {getTools[i] : i \in 1..Len(getTools)}

\* C24: the server advertises 14 tools with 14 different names; a call of an
\* advertised name is never answered by the `Unknown tool` branch of the
\* call handler, and a call of any other name always is.
C24_RegistryMatchesDispatcher ==
    /\ Len(getTools) = 14
    /\ Cardinality(Advertised) = 14
    /\ \A c \in Calls :
        pc[c] = "replied" =>
            (reply[c].error = UnknownToolError(tool[c].name)
                <=> tool[c].name \notin Advertised)

\* The last tool of the registry was called and served.
C24_Witness ==
    \E c \in Calls :
        /\ pc[c] = "replied"
        /\ tool[c].name = getTools[14]
        /\ reply[c].error = NoError
        /\ op[c] = "getDownloadUrl"


FilterKey(o) ==
    CASE o = "searchModels" -> "query"
      [] o = "searchModelsByTag" -> "tag"
      [] o = "searchModelsByCreator" -> "username"
      [] o = "getModelsByType" -> "types"

\* C26: the list-models request of searchModels, searchModelsByTag,
\* searchModelsByCreator and getModelsByType carries the first argument as
\* its query, tag, username or (one-element) types filter, whatever the
\* options bag holds.
C26_FirstArgumentIsTheFilter ==
    \A c \in Calls :
        (request[c].sent
            /\ op[c] \in {"searchModels", "searchModelsByTag", "searchModelsByCreator",
                          "getModelsByType"}) =>
            ValuesOf(RequestQuery(c), FilterKey(op[c])) = <<ToStr(args[c][1])>>


\* An argument of a tool call that the caller left unspecified: there is no
\* arguments object, the object has no such key, or its value is null.
Unspecified(a, key) == a = Undefined \/ Prop(a, key) \in {Undefined, Null}

\* C27: a call of get_popular_models, get_latest_models or
\* get_top_rated_models issues a list-models request, with limit=20 when the
\* caller left the limit unspecified and with period=Week (popular) or
\* period=AllTime (top rated) when the caller left the period unspecified.
C27_ToolDefaults ==
    \A c \in Calls :
        (tool[c].name \in {"get_popular_models", "get_latest_models",
                           "get_top_rated_models"}) =>
            LET a == tool[c].arguments
                q == RequestQuery(c)
            IN  /\ request[c].sent
                /\ Unspecified(a, "limit") => ValuesOf(q, "limit") = <<"20">>
                /\ (tool[c].name = "get_popular_models" /\ Unspecified(a, "period")) =>
                        ValuesOf(q, "period") = <<"Week">>
                /\ (tool[c].name = "get_top_rated_models" /\ Unspecified(a, "period")) =>
                        ValuesOf(q, "period") = <<"AllTime">>


(***************************************************************************)
(* Claims about the failures of the client and the answers of get_model.   *)
(***************************************************************************)
\* C28: a failure of a client operation that performs a network call is,
\* whatever its cause (the parameter bag, the transport, the status, the
\* JSON text, the schema), an error whose message starts with
\* `API request failed: `.
C28_UniformFailure ==
    \A c \in Calls :
        (pc[c] = "done" /\ op[c] # "getDownloadUrl" /\ outcome[c].kind = "error") =>
            StartsWith(outcome[c].error.message, "API request failed: ")

\* C29: the get_model tool answers with a formatted text, and not with an
\* error, for every model the client returned, that is for every value the
\* Model schema accepts.
C29_GetModelFormatsEveryModel ==
    \A c \in Calls :
        (tool[c].name = "get_model" /\ pc[c] = "replied" /\ outcome[c].kind = "value") =>
            /\ reply[c].kind = "result"
            /\ reply[c].error = NoError


(***************************************************************************)
(* Claims about falsy parameter values.                                    *)
(***************************************************************************)
\* C30: a parameter whose value is the boolean false or the number 0 is
\* sent: the URL of the request carries its key exactly once, with the value
\* `false` or `0`; so every request of getPopularModels, getLatestModels and
\* getTopRatedModels carries `nsfw=false`.
C30_FalsyScalarsSent ==
    \A c \in Calls :
        request[c].sent =>
            /\ \A i \in 1..Len(params[c]) :
                  LET k == params[c][i][1]
                      v == params[c][i][2]
                  IN  /\ v = Bool(FALSE) => ValuesOf(RequestQuery(c), k) = <<"false">>
                      /\ v = Num(0) => ValuesOf(RequestQuery(c), k) = <<"0">>
            /\ op[c] \in {"getPopularModels", "getLatestModels", "getTopRatedModels"} =>
                  ValuesOf(RequestQuery(c), "nsfw") = <<"false">>

\* getLatestModels() was called with no token configured and its request
\* went out with the default limit and `nsfw=false`.
C30_Witness ==
    \E c \in Calls :
        /\ op[c] = "getLatestModels"
        /\ apiKey = Undefined
        /\ args[c] = <<Undefined>>
        /\ request[c].sent
        /\ request[c].url = "https://civitai.com/api/v1/models?sort=Newest&limit=20&nsfw=false"


====
